---------------------------- MODULE Spec2Model ----------------------------
(***************************************************************************)
(* Restaurant back end: bill computation (routes/billpage.ts), order and   *)
(* item status handling (the orders router) and the expired-bill reaper    *)
(* (cron/deleteExpiredBills.ts).                                           *)
(*                                                                         *)
(* Money.  decimal.js values are exact decimals.  Every amount is held as  *)
(* an integer number of 1/10000 of the currency unit: 1.00 is 10000, one   *)
(* cent is 100.  Prices are given to the cent and rates are whole          *)
(* percentages, so base * rate / 100 is exact in these units.              *)
(***************************************************************************)
EXTENDS Integers, Sequences, FiniteSets, TLC

VARIABLES
    calcIn,      \* the arguments of the calculateTotals call under study
    calcOut,     \* what calculateTotals returned for calcIn, or NoResult
    calcPrev,    \* the preceding call [in, out]; out is NoResult before it
    orders,      \* the Order table: orders[id], ids 1, 2, ... in creation order
    bills,       \* the Bill table: bills[id] for the ids of the rows that exist
    nextBillId,  \* the next autoincrement id of the Bill table
    now,         \* wall-clock time, in units of 24 hours
    uploaded,    \* how many bill images clients have uploaded to the image store
    runs,        \* the reaper's runs: runs[r] is one firing of the cron callback
    lastCharges, \* history: the latest successful update-charges request and
                 \* whether it repeated the one before it, <<>> once the
                 \* order's items or its bill's total have been written since
    inventory,   \* the InventoryItem table: inventory[id] = [name, businessId,
                 \* quantity]
    placed,      \* history: <<the latest request>> if it was a POST /orders
                 \* (its body, its response, the inventory before it), else <<>>
    reqs,        \* the request handlers under way, followed call by call:
                 \* reqs[h] holds handler h's request, position and locals
    staleFor,    \* history: how many writes in a row, of POST /orders and
                 \* the item-status PATCH, have left the stored status of an
                 \* order different from its items' (0, 1, or 2 for more)
    tables,      \* the Table table: tables[id] = [isBooked, orderId]
    seated,      \* the Order.tableId column: <<order id, table id>> for
                 \* every order stored with a tableId
    customers    \* the Customer table: customers[id] = [points]

calcVars == <<calcIn, calcOut, calcPrev>>
dbVars == <<orders, bills, nextBillId>>
stockVars == <<inventory, placed>>
stepVars == <<reqs, staleFor>>
floorVars == <<tables, seated, customers>>
vars == <<calcIn, calcOut, calcPrev, orders, bills, nextBillId, now, uploaded,
          runs, lastCharges, inventory, placed, reqs, staleFor, tables, seated,
          customers>>

\* null / undefined / absent, among values that are otherwise numbers >= 0
Null == -1
\* no call yet
NoResult == [vatLowAmount |-> Null, vatHighAmount |-> Null,
             serviceTaxAmount |-> Null, serviceChargeAmount |-> Null,
             totalAmount |-> Null]

\* no table and no customer rows
NoTables == [id \in {} |-> [isBooked |-> FALSE, orderId |-> Null]]
NoCustomers == [id \in {} |-> [points |-> 0]]

\* the request handlers that can be under way at once
Handlers == {1, 2}
NoRates == [vatLow |-> Null, vatHigh |-> Null, serviceTax |-> Null,
            serviceCharge |-> Null]
\* no request: op is the endpoint, pc the next datastore call; code and
\* detail are the response's status and whether its body carries the
\* caught error's message; threw: a datastore call threw; wrote: a write of
\* this handler has been committed
IdleReq == [op |-> "idle", pc |-> "idle", orderId |-> Null, businessId |-> Null,
            productId |-> Null, status |-> "", items |-> <<>>,
            rates |-> NoRates, link |-> Null, publicId |-> Null,
            isModified |-> FALSE,
            expiresAt |-> Null, sawBill |-> FALSE, totalAmount |-> Null,
            newStatus |-> "", code |-> 0, detail |-> FALSE,
            threw |-> FALSE, wrote |-> FALSE,
            tableId |-> Null, customerId |-> Null, pointsUsed |-> 0]

\* the firings of the reaper's cron callback that can be under way at once
Runs == {1, 2}
IdleRun == [pc |-> "idle", expiredBills |-> <<>>, idx |-> 1,
            imageDone |-> FALSE, log |-> <<>>]

(***************************************************************************)
(* Bounded inputs of the calculator.                                       *)
(***************************************************************************)
\* base amounts: 0, 0.10, 0.33, 1.10, 33.00, 100.00
BaseSet == {0, 1000, 3300, 11000, 330000, 1000000}
\* a rate as a request carries it: absent/null, or a percentage
RateSet == {Null, 0, 5, 10, 100}
RateNames == {"vatLow", "vatHigh", "serviceTax", "serviceCharge"}
TaxRates == [vatLow : RateSet, vatHigh : RateSet,
             serviceTax : RateSet, serviceCharge : RateSet]

(***************************************************************************)
(* round: Decimal.toDecimalPlaces(2) under decimal.js's default rounding   *)
(* mode ROUND_HALF_UP (half away from zero), then toNumber.                *)
(***************************************************************************)
roundDown(val) ==
    IF val >= 0 THEN (val \div 100) * 100 ELSE -(((-val) \div 100) * 100)

round(val) ==
    IF val >= 0 THEN ((val + 50) \div 100) * 100
                ELSE -((((-val) + 50) \div 100) * 100)

\* `rate ? baseAmount.mul(rate).div(100) : new Decimal(0)`: null, undefined
\* and 0 are falsy
taxAmount(baseAmount, rate) ==
    IF rate = Null \/ rate = 0 THEN 0 ELSE (baseAmount * rate) \div 100

calculateTotalsMinusCharge(baseAmount, taxRates) ==
    LET vatLowAmount == taxAmount(baseAmount, taxRates.vatLow)
        vatHighAmount == taxAmount(baseAmount, taxRates.vatHigh)
        serviceTaxAmount == taxAmount(baseAmount, taxRates.serviceTax)
        serviceChargeAmount == taxAmount(baseAmount, taxRates.serviceCharge)
    IN  [vatLowAmount |-> round(vatLowAmount),
         vatHighAmount |-> round(vatHighAmount),
         serviceTaxAmount |-> round(serviceTaxAmount),
         serviceChargeAmount |-> round(serviceChargeAmount),
         totalAmount |-> round(vatLowAmount + vatHighAmount + serviceTaxAmount
                               - serviceChargeAmount + baseAmount)]

calculateTotals(baseAmount, taxRates) ==
    LET vatLowAmount == taxAmount(baseAmount, taxRates.vatLow)
        vatHighAmount == taxAmount(baseAmount, taxRates.vatHigh)
        serviceTaxAmount == taxAmount(baseAmount, taxRates.serviceTax)
        serviceChargeAmount == taxAmount(baseAmount, taxRates.serviceCharge)
    IN  [vatLowAmount |-> round(vatLowAmount),
         vatHighAmount |-> round(vatHighAmount),
         serviceTaxAmount |-> round(serviceTaxAmount),
         serviceChargeAmount |-> round(serviceChargeAmount),
         totalAmount |-> round(vatLowAmount + vatHighAmount + serviceTaxAmount
                               + serviceChargeAmount + baseAmount)]

(***************************************************************************)
(* The calculator on its own: a call, then calls with one argument raised. *)
(***************************************************************************)
NullAsZero(rate) == IF rate = Null THEN 0 ELSE rate

InitCalc ==
    /\ calcIn \in [baseAmount : BaseSet, taxRates : TaxRates]
    /\ calcOut = NoResult
    /\ calcPrev = [in |-> calcIn, out |-> NoResult]
    /\ orders = <<>>
    /\ bills = <<>>
    /\ nextBillId = 1
    /\ now = 0
    /\ uploaded = 0
    /\ runs = [r \in Runs |-> IdleRun]
    /\ lastCharges = <<>>
    /\ inventory = <<>>
    /\ placed = <<>>
    /\ reqs = [h \in Handlers |-> IdleReq]
    /\ staleFor = 0
    /\ tables = NoTables
    /\ seated = {}
    /\ customers = NoCustomers

Calculate ==
    /\ calcOut = NoResult
    /\ calcOut' = calculateTotals(calcIn.baseAmount, calcIn.taxRates)
    /\ UNCHANGED <<calcIn, calcPrev>>

RaiseBase(b) ==
    /\ calcOut # NoResult
    /\ b > calcIn.baseAmount
    /\ calcPrev' = [in |-> calcIn, out |-> calcOut]
    /\ calcIn' = [calcIn EXCEPT !.baseAmount = b]
    /\ calcOut' = calculateTotals(b, calcIn.taxRates)

RaiseRate(n, r) ==
    /\ calcOut # NoResult
    /\ NullAsZero(r) >= NullAsZero(calcIn.taxRates[n])
    /\ r # calcIn.taxRates[n]
    /\ calcPrev' = [in |-> calcIn, out |-> calcOut]
    /\ calcIn' = [calcIn EXCEPT !.taxRates[n] = r]
    /\ calcOut' = calculateTotals(calcIn.baseAmount, calcIn'.taxRates)

NextCalc ==
    \/ Calculate /\ UNCHANGED <<dbVars, now, uploaded, runs, lastCharges, stockVars, stepVars, floorVars>>
    \/ \E b \in BaseSet :
            RaiseBase(b) /\ UNCHANGED <<dbVars, now, uploaded, runs, lastCharges, stockVars, stepVars, floorVars>>
    \/ \E n \in RateNames, r \in RateSet :
            RaiseRate(n, r) /\ UNCHANGED <<dbVars, now, uploaded, runs, lastCharges, stockVars, stepVars, floorVars>>

SpecCalc == InitCalc /\ [][NextCalc]_vars

(***************************************************************************)
(* The datastore.  An order row holds businessId, status, totalAmount and  *)
(* its items (productId, name, price, quantity, status); the columns no    *)
(* handler below reads back (table number, payment method, estimated time, *)
(* customer name) are not held.  A bill row holds orderId (unique),        *)
(* businessId, the four rates, totalAmount, the two image links with their *)
(* image-store identifiers, and expiresAt.                                 *)
(***************************************************************************)
\* OrderItem.status when a row is created without one (update-items)
DefaultItemStatus == "Pending"

\* order.items.reduce((sum, item) => sum.plus(Decimal(price).mul(quantity)))
RECURSIVE baseAmountOf(_)
baseAmountOf(items) ==
    IF items = <<>> THEN 0
    ELSE items[1].price * items[1].quantity + baseAmountOf(Tail(items))

\* allItemsCompleted && items.length > 0 ? "Completed" : "Pending"
deriveStatus(items) ==
    IF (\A i \in 1..Len(items) : items[i].status = "Completed") /\ Len(items) > 0
    THEN "Completed" ELSE "Pending"

OrderExists(orderId) == orderId \in 1..Len(orders)

\* prisma.bill.findUnique({ where: { orderId } }): the ids of the order's bill
BillIdsOf(orderId) == {id \in DOMAIN bills : bills[id].orderId = orderId}
HasBill(orderId) == BillIdsOf(orderId) # {}
BillIdOf(orderId) == CHOOSE id \in BillIdsOf(orderId) : TRUE
BillOf(orderId) == bills[BillIdOf(orderId)]

\* `value ?? undefined` in a prisma create: the column default, null
OrNull(value) == value
\* `value ?? undefined` in a prisma update: a null value leaves the column
KeepIfNull(value, stored) == IF value = Null THEN stored ELSE value

NewBill(orderId, businessId) ==
    [orderId |-> orderId, businessId |-> businessId, totalAmount |-> 0,
     vatLow |-> Null, vatHigh |-> Null, serviceTax |-> Null,
     serviceCharge |-> Null,
     billStoreLink |-> Null, billStorePublicId |-> Null,
     modifiedBillStoreLink |-> Null, modifiedBillStorePublicId |-> Null,
     expiresAt |-> Null]

RatesOf(bill) ==
    [vatLow |-> bill.vatLow, vatHigh |-> bill.vatHigh,
     serviceTax |-> bill.serviceTax, serviceCharge |-> bill.serviceCharge]

\* cart_items.map(item => ({..., status: item.status || "Pending"}))
ItemsToCreate(cart_items) ==
    [i \in 1..Len(cart_items) |->
        [productId |-> cart_items[i].productId,
         name |-> cart_items[i].name,
         price |-> cart_items[i].price,
         quantity |-> cart_items[i].quantity,
         status |-> IF cart_items[i].status = "" THEN "Pending"
                    ELSE cart_items[i].status]]

Init ==
    /\ calcIn = [baseAmount |-> 0,
                 taxRates |-> [vatLow |-> Null, vatHigh |-> Null,
                               serviceTax |-> Null, serviceCharge |-> Null]]
    /\ calcOut = NoResult
    /\ calcPrev = [in |-> calcIn, out |-> NoResult]
    /\ orders = <<>>
    /\ bills = <<>>
    /\ nextBillId = 1
    /\ now = 0
    /\ uploaded = 0
    /\ runs = [r \in Runs |-> IdleRun]
    /\ lastCharges = <<>>
    /\ inventory = <<>>
    /\ placed = <<>>
    /\ reqs = [h \in Handlers |-> IdleReq]
    /\ staleFor = 0
    /\ tables = NoTables
    /\ seated = {}
    /\ customers = NoCustomers

(***************************************************************************)
(* POST /orders.  The order row and its items; the order is stored with    *)
(* status "Pending" whatever the items' statuses.  The handler's writes to *)
(* the inventory rows follow in PlaceOrder, those to the table and the     *)
(* customer rows in the call-by-call steps of the handler.                 *)
(***************************************************************************)
CreateOrder(businessId, cart_items, total_amount) ==
    /\ Len(cart_items) > 0
    /\ orders' = Append(orders,
            [businessId |-> businessId, status |-> "Pending",
             totalAmount |-> total_amount,
             items |-> ItemsToCreate(cart_items)])
    /\ lastCharges' = <<>>
    /\ UNCHANGED <<bills, nextBillId, now, runs, calcVars>>

(***************************************************************************)
(* PUT /orders/:orderId.  Old items deleted, new items created, the order  *)
(* status recomputed from the new items.  The order's bill is not touched. *)
(* The inventory writes follow in ReplaceOrder.                            *)
(***************************************************************************)
UpdateOrder(orderId, businessId, cart_items, total_amount) ==
    /\ Len(cart_items) > 0
    /\ OrderExists(orderId)
    /\ orders[orderId].businessId = businessId
    /\ LET items == ItemsToCreate(cart_items)
       IN orders' = [orders EXCEPT ![orderId] =
                [@ EXCEPT !.totalAmount = total_amount,
                          !.items = items,
                          !.status = deriveStatus(items)]]
    /\ lastCharges' = <<>>
    /\ UNCHANGED <<bills, nextBillId, now, runs, calcVars>>

(***************************************************************************)
(* PATCH /orders/:orderId/status: the status of the request body is stored.*)
(***************************************************************************)
PatchOrderStatus(orderId, businessId, status) ==
    /\ OrderExists(orderId)
    /\ orders[orderId].businessId = businessId
    /\ orders' = [orders EXCEPT ![orderId].status = status]
    /\ UNCHANGED lastCharges
    /\ UNCHANGED <<bills, nextBillId, now, runs, calcVars>>

(***************************************************************************)
(* PATCH /orders/:orderId/items/:productId/status: every item of the order *)
(* with that productId gets the status; the order status is recomputed.    *)
(***************************************************************************)
\* the item rows rewritten from the request alone, losing their snapshot
PatchItemStatusRewritingRows(orderId, businessId, productId, status) ==
    /\ OrderExists(orderId)
    /\ orders[orderId].businessId = businessId
    /\ \E i \in 1..Len(orders[orderId].items) :
            orders[orderId].items[i].productId = productId
    /\ LET items == [i \in 1..Len(orders[orderId].items) |->
                        IF orders[orderId].items[i].productId = productId
                        THEN [orders[orderId].items[i] EXCEPT
                                    !.status = status, !.price = 0]
                        ELSE orders[orderId].items[i]]
       IN orders' = [orders EXCEPT ![orderId] =
                [@ EXCEPT !.items = items, !.status = deriveStatus(items)]]
    /\ UNCHANGED lastCharges
    /\ UNCHANGED <<bills, nextBillId, now, runs, calcVars>>

PatchItemStatus(orderId, businessId, productId, status) ==
    /\ OrderExists(orderId)
    /\ orders[orderId].businessId = businessId
    /\ \E i \in 1..Len(orders[orderId].items) :
            orders[orderId].items[i].productId = productId
    /\ LET items == [i \in 1..Len(orders[orderId].items) |->
                        IF orders[orderId].items[i].productId = productId
                        THEN [orders[orderId].items[i] EXCEPT !.status = status]
                        ELSE orders[orderId].items[i]]
       IN orders' = [orders EXCEPT ![orderId] =
                [@ EXCEPT !.items = items, !.status = deriveStatus(items)]]
    /\ UNCHANGED lastCharges
    /\ UNCHANGED <<bills, nextBillId, now, runs, calcVars>>

(***************************************************************************)
(* PATCH /orders/:orderId/complete-all: every item and the order are set   *)
(* to "Completed".                                                         *)
(***************************************************************************)
CompleteAll(orderId, businessId) ==
    /\ OrderExists(orderId)
    /\ orders[orderId].businessId = businessId
    /\ orders' = [orders EXCEPT ![orderId] =
            [@ EXCEPT !.items = [i \in 1..Len(@) |->
                                    [@[i] EXCEPT !.status = "Completed"]],
                      !.status = "Completed"]]
    /\ UNCHANGED lastCharges
    /\ UNCHANGED <<bills, nextBillId, now, runs, calcVars>>

(***************************************************************************)
(* POST /bill.  One transaction: the bill row is created (the create fails *)
(* on the unique orderId when the order has a bill, and nothing is         *)
(* written), then the order gets status "Completed" and the bill's total.  *)
(***************************************************************************)
PostBill(orderId, businessId, taxRates) ==
    /\ OrderExists(orderId)
    /\ orders[orderId].businessId = businessId
    /\ ~HasBill(orderId)
    /\ LET baseAmount == baseAmountOf(orders[orderId].items)
           totalAmount == calculateTotals(baseAmount, taxRates).totalAmount
       IN /\ bills' = bills @@ (nextBillId :>
                    [NewBill(orderId, businessId) EXCEPT
                        !.totalAmount = totalAmount,
                        !.vatLow = OrNull(taxRates.vatLow),
                        !.vatHigh = OrNull(taxRates.vatHigh),
                        !.serviceTax = OrNull(taxRates.serviceTax),
                        !.serviceCharge = OrNull(taxRates.serviceCharge)])
          /\ orders' = [orders EXCEPT ![orderId] =
                    [@ EXCEPT !.status = "Completed",
                              !.totalAmount = totalAmount]]
    /\ nextBillId' = nextBillId + 1
    /\ lastCharges' = <<>>
    /\ UNCHANGED <<now, runs, calcVars>>

(***************************************************************************)
(* PUT /bill/:orderId/update-charges.  The total is computed from the      *)
(* request's rates; one transaction updates the bill (a null rate leaves   *)
(* the stored rate) and the order's total.  Without a bill the update      *)
(* throws and nothing is written.                                          *)
(***************************************************************************)
ChargedBillFromStoredTotal(orderId, rates) ==
    LET bill == BillOf(orderId)
        totalAmount == calculateTotals(bill.totalAmount, rates).totalAmount
    IN [bill EXCEPT !.vatLow = KeepIfNull(rates.vatLow, @),
                    !.vatHigh = KeepIfNull(rates.vatHigh, @),
                    !.serviceTax = KeepIfNull(rates.serviceTax, @),
                    !.serviceCharge = KeepIfNull(rates.serviceCharge, @),
                    !.totalAmount = totalAmount]

ChargedBill(orderId, rates) ==
    LET bill == BillOf(orderId)
        baseAmount == baseAmountOf(orders[orderId].items)
        totalAmount == calculateTotals(baseAmount, rates).totalAmount
    IN [bill EXCEPT !.vatLow = KeepIfNull(rates.vatLow, @),
                    !.vatHigh = KeepIfNull(rates.vatHigh, @),
                    !.serviceTax = KeepIfNull(rates.serviceTax, @),
                    !.serviceCharge = KeepIfNull(rates.serviceCharge, @),
                    !.totalAmount = totalAmount]

UpdateCharges(orderId, businessId, rates) ==
    /\ OrderExists(orderId)
    /\ orders[orderId].businessId = businessId
    /\ HasBill(orderId)
    /\ LET updated == ChargedBill(orderId, rates)
           repeated == /\ lastCharges # <<>>
                       /\ lastCharges[1].orderId = orderId
                       /\ lastCharges[1].rates = rates
       IN /\ bills' = [bills EXCEPT ![BillIdOf(orderId)] = updated]
          /\ orders' = [orders EXCEPT
                            ![orderId].totalAmount = updated.totalAmount]
          /\ lastCharges' =
                IF repeated
                THEN <<[lastCharges[1] EXCEPT
                            !.count = 2, !.totalAmount = updated.totalAmount]>>
                ELSE <<[orderId |-> orderId, rates |-> rates, count |-> 1,
                        totalAmount |-> updated.totalAmount,
                        first |-> [totalAmount |-> updated.totalAmount,
                                   bill |-> updated,
                                   orderTotal |-> updated.totalAmount]]>>
    /\ UNCHANGED <<nextBillId, now, runs, calcVars>>

(***************************************************************************)
(* PUT /bill/:orderId/store-link.  expiresAt is now + 24 hours.  With a    *)
(* bill: the plain or the modified link pair and expiresAt are written.    *)
(* Without one: a bill is created with the link pair, expiresAt and        *)
(* totalAmount = round(base).                                              *)
(***************************************************************************)
BillTtl == 1

\* both link pairs written whatever isModified says
WithLinkBothPairs(bill, billStoreLink, cloudinaryPublicId, isModified, expiresAt) ==
    [bill EXCEPT !.modifiedBillStoreLink = billStoreLink,
                 !.modifiedBillStorePublicId = cloudinaryPublicId,
                 !.billStoreLink = billStoreLink,
                 !.billStorePublicId = cloudinaryPublicId,
                 !.expiresAt = expiresAt]

WithLink(bill, billStoreLink, cloudinaryPublicId, isModified, expiresAt) ==
    IF isModified
    THEN [bill EXCEPT !.modifiedBillStoreLink = billStoreLink,
                      !.modifiedBillStorePublicId = cloudinaryPublicId,
                      !.expiresAt = expiresAt]
    ELSE [bill EXCEPT !.billStoreLink = billStoreLink,
                      !.billStorePublicId = cloudinaryPublicId,
                      !.expiresAt = expiresAt]

StoreLink(orderId, businessId, billStoreLink, cloudinaryPublicId, isModified) ==
    /\ OrderExists(orderId)
    /\ orders[orderId].businessId = businessId
    /\ LET expiresAt == now + BillTtl
       IN IF HasBill(orderId)
          THEN /\ bills' = [bills EXCEPT ![BillIdOf(orderId)] =
                        WithLink(@, billStoreLink, cloudinaryPublicId,
                                 isModified, expiresAt)]
               /\ UNCHANGED nextBillId
          ELSE /\ bills' = bills @@ (nextBillId :>
                        WithLink([NewBill(orderId, businessId) EXCEPT
                                    !.totalAmount =
                                        round(baseAmountOf(orders[orderId].items))],
                                 billStoreLink, cloudinaryPublicId,
                                 isModified, expiresAt))
               /\ nextBillId' = nextBillId + 1
    /\ UNCHANGED lastCharges
    /\ UNCHANGED <<orders, now, runs, calcVars>>

(***************************************************************************)
(* PUT /bill/:orderId/update-items.  One transaction: the order's items    *)
(* are replaced (created without a status), the bill is created if there   *)
(* is none, the total is computed from the new items and the bill's stored *)
(* rates and written to bill and order.  The order status is not written.  *)
(***************************************************************************)
UpdateItems(orderId, businessId, items) ==
    /\ OrderExists(orderId)
    /\ orders[orderId].businessId = businessId
    /\ LET created == [i \in 1..Len(items) |->
                          [productId |-> items[i].productId,
                           name |-> items[i].name,
                           price |-> items[i].price,
                           quantity |-> items[i].quantity,
                           status |-> DefaultItemStatus]]
           baseAmount == baseAmountOf(items)
           id == IF HasBill(orderId) THEN BillIdOf(orderId) ELSE nextBillId
           bill == IF HasBill(orderId) THEN BillOf(orderId)
                   ELSE [NewBill(orderId, businessId) EXCEPT
                            !.totalAmount = round(baseAmount)]
           totalAmount == calculateTotals(baseAmount, RatesOf(bill)).totalAmount
       IN /\ bills' = IF HasBill(orderId)
                      THEN [bills EXCEPT ![id].totalAmount = totalAmount]
                      ELSE bills @@ (id :> [bill EXCEPT
                                                !.totalAmount = totalAmount])
          /\ nextBillId' = IF HasBill(orderId) THEN nextBillId
                           ELSE nextBillId + 1
          /\ orders' = [orders EXCEPT ![orderId] =
                    [@ EXCEPT !.items = created, !.totalAmount = totalAmount]]
    /\ lastCharges' = <<>>
    /\ UNCHANGED <<now, runs, calcVars>>

(***************************************************************************)
(* The inventory loop of POST /orders.  For each cart item the product is  *)
(* looked up and, for each ingredient of its metadata, quantityToDeduct =  *)
(* Number(ing.quantity) * item.quantity is taken from every inventory row  *)
(* with the ingredient's name and the request's businessId, unless it is   *)
(* NaN.  The loop runs inside the handler's try block, after the order     *)
(* row has been created.                                                   *)
(*                                                                         *)
(* An ingredient quantity is held as a number >= 0, as Null, or as         *)
(* NonNumeric for a value Number() has no number for ("abc", undefined).   *)
(***************************************************************************)
NonNumeric == -2
NaN == -3

\* Number(value): null is 0
Number(value) ==
    IF value = NonNumeric THEN NaN ELSE IF value = Null THEN 0 ELSE value

\* a * b on JavaScript numbers
Times(a, b) == IF a = NaN \/ b = NaN THEN NaN ELSE a * b

isNaN(x) == x = NaN

\* the Product table's metadata.ingredients, as POST /products stored them
Products ==
    (1 :> [ingredients |-> <<[name |-> "Milk", quantity |-> 2],
                             [name |-> "Sugar", quantity |-> NonNumeric]>>])
    @@ (2 :> [ingredients |-> <<[name |-> "Flour", quantity |-> 3],
                                [name |-> "Milk", quantity |-> 1],
                                [name |-> "Salt", quantity |-> Null]>>])

\* dish?.metadata ... metadataObj?.ingredients || []
IngredientsOf(productId) ==
    IF productId \in DOMAIN Products THEN Products[productId].ingredients
    ELSE <<>>

\* the datastore calls of the inner loop for one cart item
RECURSIVE IngredientOps(_, _)
IngredientOps(ingredients, quantity) ==
    IF ingredients = <<>> THEN <<>>
    ELSE LET ing == Head(ingredients)
             quantityToDeduct == Times(Number(ing.quantity), quantity)
         IN (IF ~isNaN(quantityToDeduct)
             THEN <<[kind |-> "updateMany", name |-> ing.name,
                     amount |-> quantityToDeduct]>>
             ELSE <<>>)
            \o IngredientOps(Tail(ingredients), quantity)

\* the datastore calls of the whole loop, in order
RECURSIVE InventoryOps(_)
InventoryOps(cart_items) ==
    IF cart_items = <<>> THEN <<>>
    ELSE <<[kind |-> "findUnique", name |-> "", amount |-> 0]>>
         \o IngredientOps(IngredientsOf(Head(cart_items).productId),
                          Head(cart_items).quantity)
         \o InventoryOps(Tail(cart_items))

\* the decrement reaching the rows of every business
updateManyAnyBusiness(rows, name, businessId, amount) ==
    [id \in DOMAIN rows |->
        IF rows[id].name = name
        THEN [rows[id] EXCEPT !.quantity = @ - amount]
        ELSE rows[id]]

\* prisma.inventoryItem.updateMany({ where: { name, businessId },
\*                                   data: { quantity: { decrement } } })
updateMany(rows, name, businessId, amount) ==
    [id \in DOMAIN rows |->
        IF rows[id].name = name /\ rows[id].businessId = businessId
        THEN [rows[id] EXCEPT !.quantity = @ - amount]
        ELSE rows[id]]

\* the inventory after the first n calls of the loop
RECURSIVE InventoryAfter(_, _, _, _)
InventoryAfter(rows, businessId, ops, n) ==
    IF n = 0 \/ ops = <<>> THEN rows
    ELSE InventoryAfter(
            IF Head(ops).kind = "updateMany"
            THEN updateMany(rows, Head(ops).name, businessId, Head(ops).amount)
            ELSE rows,
            businessId, Tail(ops), n - 1)

(***************************************************************************)
(* POST /orders, the whole handler: the order row, then the inventory      *)
(* loop.  failAt = 0: no datastore call of the loop throws and the answer  *)
(* is 201 with the created order's status; failAt = k: the k-th call       *)
(* throws, the calls before it have been applied, and the handler's catch  *)
(* answers 500.  The request names its table by table_number and carries   *)
(* no customer token, so no table and no customer row is touched.          *)
(***************************************************************************)
PlaceOrder(businessId, cart_items, total_amount, failAt) ==
    /\ CreateOrder(businessId, cart_items, total_amount)
    /\ failAt \in 0..Len(InventoryOps(cart_items))
    /\ LET ops == InventoryOps(cart_items)
           applied == IF failAt = 0 THEN Len(ops) ELSE failAt - 1
       IN /\ inventory' = InventoryAfter(inventory, businessId, ops, applied)
          /\ placed' = <<[businessId |-> businessId,
                          cart_items |-> cart_items,
                          orderId |-> Len(orders) + 1,
                          before |-> inventory,
                          status |-> IF failAt = 0 THEN 201 ELSE 500]>>
    /\ UNCHANGED floorVars

(***************************************************************************)
(* PUT /orders/:orderId, the whole handler: the order's writes, then the   *)
(* same inventory loop for the new cart.                                   *)
(***************************************************************************)
ReplaceOrder(orderId, businessId, cart_items, total_amount) ==
    /\ UpdateOrder(orderId, businessId, cart_items, total_amount)
    /\ inventory' = InventoryAfter(inventory, businessId,
                                   InventoryOps(cart_items),
                                   Len(InventoryOps(cart_items)))
    /\ placed' = <<>>
    /\ UNCHANGED floorVars

\* any other request: the inventory, the tables and the customers are left
\* alone
NotAnOrder == inventory' = inventory /\ placed' = <<>> /\ UNCHANGED floorVars

(***************************************************************************)
(* Request handlers call by call.  A handler is an asynchronous task that  *)
(* is suspended at every datastore call, so the calls of the handlers      *)
(* under way interleave; each call may throw, which takes the handler to   *)
(* its catch block.  prisma.$transaction commits its calls as one step or  *)
(* not at all.                                                             *)
(***************************************************************************)
StepFrame ==
    /\ lastCharges' = <<>>
    /\ NotAnOrder
    /\ UNCHANGED <<now, uploaded, runs, calcVars>>

\* some order's stored status is not the status of its items
Stale(rows) ==
    \E o \in 1..Len(rows) : rows[o].status # deriveStatus(rows[o].items)

\* bookkeeping of a committed datastore write
Written ==
    staleFor' = IF Stale(orders')
                THEN (IF staleFor < 2 THEN staleFor + 1 ELSE 2)
                ELSE 0

\* the handler's answer; the handler has returned and its locals are gone
Responded(req, code, detail) ==
    [IdleReq EXCEPT !.op = req.op, !.orderId = req.orderId,
                    !.businessId = req.businessId, !.wrote = req.wrote,
                    !.pc = "done", !.code = code, !.detail = detail]

\* a datastore call threw and the handler's catch block answered
Caught(req, code, detail) ==
    [IdleReq EXCEPT !.op = req.op, !.orderId = req.orderId,
                    !.businessId = req.businessId, !.wrote = req.wrote,
                    !.pc = "done", !.code = code, !.detail = detail,
                    !.threw = TRUE]

\* the response is out; the handler is free for the next request
ReqEnd(h) ==
    /\ reqs[h].pc = "done"
    /\ reqs' = [reqs EXCEPT ![h] = IdleReq]
    /\ UNCHANGED <<dbVars, staleFor>>
    /\ StepFrame

(***************************************************************************)
(* PATCH /orders/:orderId/items/:productId/status, call by call:           *)
(* findUnique (the order with its items), updateMany (the items of that    *)
(* product), findUnique (the items again), update (the order's status).    *)
(* No transaction encloses them; the catch block answers 500.              *)
(***************************************************************************)
PatchBegin(h, orderId, businessId, productId, status, ok) ==
    /\ reqs[h].pc = "idle"
    /\ OrderExists(orderId)
    /\ orders[orderId].businessId = businessId
    /\ \E i \in 1..Len(orders[orderId].items) :
            orders[orderId].items[i].productId = productId
    /\ LET req == [IdleReq EXCEPT !.op = "patchItem", !.orderId = orderId,
                                  !.businessId = businessId,
                                  !.productId = productId, !.status = status]
       IN reqs' = [reqs EXCEPT ![h] =
                IF ok THEN [req EXCEPT !.pc = "updateMany"]
                ELSE Caught(req, 500, FALSE)]
    /\ UNCHANGED <<dbVars, staleFor>>
    /\ StepFrame

PatchUpdateMany(h, ok) ==
    /\ reqs[h].op = "patchItem"
    /\ reqs[h].pc = "updateMany"
    /\ IF ok
       THEN LET o == reqs[h].orderId
                items == [i \in 1..Len(orders[o].items) |->
                            IF orders[o].items[i].productId = reqs[h].productId
                            THEN [orders[o].items[i] EXCEPT
                                        !.status = reqs[h].status]
                            ELSE orders[o].items[i]]
            IN /\ orders' = [orders EXCEPT ![o].items = items]
               /\ reqs' = [reqs EXCEPT ![h].pc = "findUnique",
                                       ![h].wrote = TRUE]
               /\ Written
       ELSE /\ reqs' = [reqs EXCEPT ![h] = Caught(@, 500, FALSE)]
            /\ UNCHANGED <<orders, staleFor>>
    /\ UNCHANGED <<bills, nextBillId>>
    /\ StepFrame

PatchFindUnique(h, ok) ==
    /\ reqs[h].op = "patchItem"
    /\ reqs[h].pc = "findUnique"
    /\ reqs' = [reqs EXCEPT ![h] =
            IF ok
            THEN [@ EXCEPT !.pc = "update",
                           !.newStatus =
                                deriveStatus(orders[reqs[h].orderId].items)]
            ELSE Caught(@, 500, FALSE)]
    /\ UNCHANGED <<dbVars, staleFor>>
    /\ StepFrame

PatchUpdate(h, ok) ==
    /\ reqs[h].op = "patchItem"
    /\ reqs[h].pc = "update"
    /\ IF ok
       THEN /\ orders' = [orders EXCEPT
                            ![reqs[h].orderId].status = reqs[h].newStatus]
            /\ reqs' = [reqs EXCEPT ![h] = Responded(@, 200, FALSE)]
            /\ Written
       ELSE /\ reqs' = [reqs EXCEPT ![h] = Caught(@, 500, FALSE)]
            /\ UNCHANGED <<orders, staleFor>>
    /\ UNCHANGED <<bills, nextBillId>>
    /\ StepFrame

(***************************************************************************)
(* What each endpoint's catch block answers when a datastore call throws:  *)
(* <<status, whether the body carries err.message>>.                       *)
(***************************************************************************)
CatchOf(op) ==
    CASE op = "postBill" -> <<400, TRUE>>
      [] op = "getDetails" -> <<400, TRUE>>
      [] op = "fakeBill" -> <<400, TRUE>>
      [] op = "getBill" -> <<400, TRUE>>
      [] op = "updateCharges" -> <<400, TRUE>>
      [] op = "storeLink" -> <<500, FALSE>>
      [] op = "updateItems" -> <<500, FALSE>>
      [] op = "getLink" -> <<500, FALSE>>
      [] op = "putOrder" -> <<500, FALSE>>
      [] op = "patchItem" -> <<500, FALSE>>
      [] op = "postOrder" -> <<500, FALSE>>

Thrown(req) == Caught(req, CatchOf(req.op)[1], CatchOf(req.op)[2])

\* the endpoints that only read: one lookup, then the answer
ReadOps == {"getDetails", "fakeBill", "getBill", "getLink"}

ReadRequest(h, op, orderId, businessId, ok) ==
    /\ reqs[h].pc = "idle"
    /\ op \in ReadOps
    /\ OrderExists(orderId)
    /\ orders[orderId].businessId = businessId
    /\ LET req == [IdleReq EXCEPT !.op = op, !.orderId = orderId,
                                  !.businessId = businessId]
       IN reqs' = [reqs EXCEPT ![h] =
                IF ok THEN Responded(req, 200, FALSE) ELSE Thrown(req)]
    /\ UNCHANGED <<dbVars, staleFor>>
    /\ StepFrame

(***************************************************************************)
(* PUT /orders/:orderId, call by call: findUnique, deleteMany (the old     *)
(* items), update (the order's columns and the new items), update (the     *)
(* status derived from the items the second call returned).  No            *)
(* transaction encloses them.                                              *)
(***************************************************************************)
PutBegin(h, orderId, businessId, cart_items, total_amount, customerId, pointsUsed, ok) ==
    /\ reqs[h].pc = "idle"
    /\ Len(cart_items) > 0
    /\ OrderExists(orderId)
    /\ orders[orderId].businessId = businessId
    /\ LET req == [IdleReq EXCEPT !.op = "putOrder", !.orderId = orderId,
                                  !.businessId = businessId,
                                  !.items = ItemsToCreate(cart_items),
                                  !.totalAmount = total_amount,
                                  !.customerId = customerId,
                                  !.pointsUsed = pointsUsed]
       IN reqs' = [reqs EXCEPT ![h] =
                IF ok THEN [req EXCEPT !.pc = "deleteMany"] ELSE Thrown(req)]
    /\ UNCHANGED <<dbVars, staleFor>>
    /\ StepFrame

PutDeleteMany(h, ok) ==
    /\ reqs[h].op = "putOrder"
    /\ reqs[h].pc = "deleteMany"
    /\ IF ok
       THEN /\ orders' = [orders EXCEPT ![reqs[h].orderId].items = <<>>]
            /\ reqs' = [reqs EXCEPT ![h].pc = "update", ![h].wrote = TRUE]
       ELSE /\ reqs' = [reqs EXCEPT ![h] = Thrown(@)]
            /\ UNCHANGED orders
    /\ UNCHANGED <<bills, nextBillId, staleFor>>
    /\ StepFrame

PutUpdate(h, ok) ==
    /\ reqs[h].op = "putOrder"
    /\ reqs[h].pc = "update"
    /\ IF ok
       THEN LET o == reqs[h].orderId
                items == orders[o].items \o reqs[h].items
            IN /\ orders' = [orders EXCEPT ![o] =
                        [@ EXCEPT !.totalAmount = reqs[h].totalAmount,
                                  !.items = items]]
               /\ reqs' = [reqs EXCEPT ![h].pc = "status",
                                       ![h].newStatus = deriveStatus(items)]
       ELSE /\ reqs' = [reqs EXCEPT ![h] = Thrown(@)]
            /\ UNCHANGED orders
    /\ UNCHANGED <<bills, nextBillId, staleFor>>
    /\ StepFrame

\* if (customerId && pointsUsed && pointsUsed > 0)
RedeemsPoints(req) == req.customerId # Null /\ req.pointsUsed > 0

PutStatus(h, ok) ==
    /\ reqs[h].op = "putOrder"
    /\ reqs[h].pc = "status"
    /\ IF ok
       THEN /\ orders' = [orders EXCEPT
                            ![reqs[h].orderId].status = reqs[h].newStatus]
            /\ reqs' = [reqs EXCEPT ![h] =
                    IF RedeemsPoints(@) THEN [@ EXCEPT !.pc = "findCustomer"]
                    ELSE Responded(@, 200, FALSE)]
       ELSE /\ reqs' = [reqs EXCEPT ![h] = Thrown(@)]
            /\ UNCHANGED orders
    /\ UNCHANGED <<bills, nextBillId, staleFor>>
    /\ StepFrame

(***************************************************************************)
(* POST /orders call by call, for a request that may name a table (tableId)*)
(* and come from a signed-in customer who may redeem points: the table     *)
(* lookup, the order's creation, the table's update, the customer lookup,  *)
(* the points decrement, the points increment, the inventory loop.  The    *)
(* lookup and the decrement of the points are the same calls in PUT        *)
(* /orders/:orderId, after its status update.  No transaction encloses     *)
(* them.                                                                   *)
(***************************************************************************)
FloorFrame ==
    /\ lastCharges' = <<>>
    /\ placed' = <<>>
    /\ UNCHANGED <<now, uploaded, runs, calcVars>>

\* Math.floor(Number(total_amount) / 100), total_amount in 1/10000 units
earnedPoints(total_amount) == total_amount \div 1000000

\* where POST /orders goes on once the order (and the table) is written
AfterLink(req) ==
    IF RedeemsPoints(req) THEN "findCustomer"
    ELSE IF req.customerId # Null THEN "earn" ELSE "inventory"

\* where either handler goes on after its points handling
Redeemed(req) ==
    IF req.op = "postOrder" THEN [req EXCEPT !.pc = "earn"]
    ELSE Responded(req, 200, FALSE)

OrderBegin(h, businessId, tableId, customerId, cart_items, total_amount, pointsUsed) ==
    /\ reqs[h].pc = "idle"
    /\ Len(cart_items) > 0
    /\ LET req == [IdleReq EXCEPT !.op = "postOrder",
                                  !.businessId = businessId,
                                  !.tableId = tableId,
                                  !.customerId = customerId,
                                  !.items = cart_items,
                                  !.totalAmount = total_amount,
                                  !.pointsUsed = pointsUsed]
       IN reqs' = [reqs EXCEPT ![h] =
                IF tableId = Null THEN [req EXCEPT !.pc = "create"]
                ELSE IF tableId \notin DOMAIN tables
                     THEN Responded(req, 404, FALSE)
                ELSE IF tables[tableId].isBooked
                     THEN Responded(req, 400, FALSE)
                ELSE [req EXCEPT !.pc = "create"]]
    /\ UNCHANGED <<dbVars, staleFor>>
    /\ StepFrame

OrderCreate(h) ==
    /\ reqs[h].op = "postOrder"
    /\ reqs[h].pc = "create"
    /\ CreateOrder(reqs[h].businessId, reqs[h].items, reqs[h].totalAmount)
    /\ seated' = IF reqs[h].tableId = Null THEN seated
                 ELSE seated \cup {<<Len(orders) + 1, reqs[h].tableId>>}
    /\ reqs' = [reqs EXCEPT ![h].orderId = Len(orders) + 1,
                            ![h].wrote = TRUE,
                            ![h].pc = IF reqs[h].tableId # Null
                                      THEN "linkTable" ELSE AfterLink(reqs[h])]
    /\ Written
    /\ inventory' = inventory
    /\ UNCHANGED <<tables, customers>>
    /\ FloorFrame

OrderLinkTable(h) ==
    /\ reqs[h].op = "postOrder"
    /\ reqs[h].pc = "linkTable"
    /\ tables' = [tables EXCEPT ![reqs[h].tableId] =
                        [isBooked |-> TRUE, orderId |-> reqs[h].orderId]]
    /\ reqs' = [reqs EXCEPT ![h].pc = AfterLink(reqs[h])]
    /\ inventory' = inventory
    /\ UNCHANGED <<dbVars, staleFor, seated, customers>>
    /\ FloorFrame

\* prisma.customer.findUnique and the test of the balance it returned
FindCustomer(h) ==
    /\ reqs[h].op \in {"postOrder", "putOrder"}
    /\ reqs[h].pc = "findCustomer"
    /\ LET c == reqs[h].customerId
           enough == /\ c \in DOMAIN customers
                     /\ customers[c].points >= reqs[h].pointsUsed
       IN reqs' = [reqs EXCEPT ![h] =
                IF enough THEN [@ EXCEPT !.pc = "redeem"] ELSE Redeemed(@)]
    /\ inventory' = inventory
    /\ UNCHANGED <<dbVars, staleFor, floorVars>>
    /\ FloorFrame

\* prisma.customer.update({ data: { points: { decrement: pointsUsed } } })
RedeemPoints(h) ==
    /\ reqs[h].op \in {"postOrder", "putOrder"}
    /\ reqs[h].pc = "redeem"
    /\ customers' = [customers EXCEPT
                        ![reqs[h].customerId].points = @ - reqs[h].pointsUsed]
    /\ reqs' = [reqs EXCEPT ![h] = Redeemed(@)]
    /\ inventory' = inventory
    /\ UNCHANGED <<dbVars, staleFor, tables, seated>>
    /\ FloorFrame

\* the customer's statistics and earned points; no row to update throws
OrderEarn(h) ==
    /\ reqs[h].op = "postOrder"
    /\ reqs[h].pc = "earn"
    /\ IF reqs[h].customerId \in DOMAIN customers
       THEN /\ customers' = [customers EXCEPT
                    ![reqs[h].customerId].points =
                        @ + earnedPoints(reqs[h].totalAmount)]
            /\ reqs' = [reqs EXCEPT ![h].pc = "inventory"]
       ELSE /\ reqs' = [reqs EXCEPT ![h] = Thrown(@)]
            /\ UNCHANGED customers
    /\ inventory' = inventory
    /\ UNCHANGED <<dbVars, staleFor, tables, seated>>
    /\ FloorFrame

\* the inventory loop and the 201 answer
OrderInventory(h) ==
    /\ reqs[h].op = "postOrder"
    /\ reqs[h].pc = "inventory"
    /\ inventory' = InventoryAfter(inventory, reqs[h].businessId,
                                   InventoryOps(reqs[h].items),
                                   Len(InventoryOps(reqs[h].items)))
    /\ reqs' = [reqs EXCEPT ![h] = Responded(@, 201, FALSE)]
    /\ UNCHANGED <<dbVars, staleFor, floorVars>>
    /\ FloorFrame

(***************************************************************************)
(* Bill.orderId is unique (the handlers look bills up with findUnique by   *)
(* orderId, and an order includes one bill): a create for an order that    *)
(* has a bill throws.                                                      *)
(***************************************************************************)
CanCreateBillAlways(orderId) == TRUE

CanCreateBill(orderId) == ~HasBill(orderId)

(***************************************************************************)
(* POST /bill, call by call: findUnique (the order's items, from which the *)
(* total is computed), then the transaction (bill.create, order.update).   *)
(***************************************************************************)
BillBegin(h, orderId, businessId, taxRates, ok) ==
    /\ reqs[h].pc = "idle"
    /\ OrderExists(orderId)
    /\ orders[orderId].businessId = businessId
    /\ LET baseAmount == baseAmountOf(orders[orderId].items)
           req == [IdleReq EXCEPT
                        !.op = "postBill", !.orderId = orderId,
                        !.businessId = businessId, !.rates = taxRates,
                        !.totalAmount =
                            calculateTotals(baseAmount, taxRates).totalAmount]
       IN reqs' = [reqs EXCEPT ![h] =
                IF ok THEN [req EXCEPT !.pc = "tx"] ELSE Thrown(req)]
    /\ UNCHANGED <<dbVars, staleFor>>
    /\ StepFrame

BillTx(h, ok) ==
    /\ reqs[h].op = "postBill"
    /\ reqs[h].pc = "tx"
    /\ IF ok /\ CanCreateBill(reqs[h].orderId)
       THEN /\ bills' = bills @@ (nextBillId :>
                    [NewBill(reqs[h].orderId, reqs[h].businessId) EXCEPT
                        !.totalAmount = reqs[h].totalAmount,
                        !.vatLow = OrNull(reqs[h].rates.vatLow),
                        !.vatHigh = OrNull(reqs[h].rates.vatHigh),
                        !.serviceTax = OrNull(reqs[h].rates.serviceTax),
                        !.serviceCharge = OrNull(reqs[h].rates.serviceCharge)])
            /\ nextBillId' = nextBillId + 1
            /\ orders' = [orders EXCEPT ![reqs[h].orderId] =
                    [@ EXCEPT !.status = "Completed",
                              !.totalAmount = reqs[h].totalAmount]]
            /\ reqs' = [reqs EXCEPT ![h] =
                    [Responded(@, 201, FALSE) EXCEPT !.wrote = TRUE]]
       ELSE /\ reqs' = [reqs EXCEPT ![h] = Thrown(@)]
            /\ UNCHANGED dbVars
    /\ UNCHANGED staleFor
    /\ StepFrame

(***************************************************************************)
(* PUT /bill/:orderId/update-charges, call by call: findUnique (the        *)
(* order's items), then the transaction (bill.update, order.update).       *)
(***************************************************************************)
ChargesBegin(h, orderId, businessId, rates, ok) ==
    /\ reqs[h].pc = "idle"
    /\ OrderExists(orderId)
    /\ orders[orderId].businessId = businessId
    /\ LET baseAmount == baseAmountOf(orders[orderId].items)
           req == [IdleReq EXCEPT
                        !.op = "updateCharges", !.orderId = orderId,
                        !.businessId = businessId, !.rates = rates,
                        !.totalAmount =
                            calculateTotals(baseAmount, rates).totalAmount]
       IN reqs' = [reqs EXCEPT ![h] =
                IF ok THEN [req EXCEPT !.pc = "tx"] ELSE Thrown(req)]
    /\ UNCHANGED <<dbVars, staleFor>>
    /\ StepFrame

\* the transaction without its order.update
ChargesTxBillOnly(h, ok) ==
    /\ reqs[h].op = "updateCharges"
    /\ reqs[h].pc = "tx"
    /\ IF ok /\ HasBill(reqs[h].orderId)
       THEN /\ bills' = [bills EXCEPT ![BillIdOf(reqs[h].orderId)] =
                    [@ EXCEPT
                        !.vatLow = KeepIfNull(reqs[h].rates.vatLow, @),
                        !.vatHigh = KeepIfNull(reqs[h].rates.vatHigh, @),
                        !.serviceTax = KeepIfNull(reqs[h].rates.serviceTax, @),
                        !.serviceCharge =
                            KeepIfNull(reqs[h].rates.serviceCharge, @),
                        !.totalAmount = reqs[h].totalAmount]]
            /\ reqs' = [reqs EXCEPT ![h] =
                    [Responded(@, 200, FALSE) EXCEPT !.wrote = TRUE]]
            /\ UNCHANGED orders
       ELSE /\ reqs' = [reqs EXCEPT ![h] = Thrown(@)]
            /\ UNCHANGED <<orders, bills>>
    /\ UNCHANGED <<nextBillId, staleFor>>
    /\ StepFrame

ChargesTx(h, ok) ==
    /\ reqs[h].op = "updateCharges"
    /\ reqs[h].pc = "tx"
    /\ IF ok /\ HasBill(reqs[h].orderId)
       THEN /\ bills' = [bills EXCEPT ![BillIdOf(reqs[h].orderId)] =
                    [@ EXCEPT
                        !.vatLow = KeepIfNull(reqs[h].rates.vatLow, @),
                        !.vatHigh = KeepIfNull(reqs[h].rates.vatHigh, @),
                        !.serviceTax = KeepIfNull(reqs[h].rates.serviceTax, @),
                        !.serviceCharge =
                            KeepIfNull(reqs[h].rates.serviceCharge, @),
                        !.totalAmount = reqs[h].totalAmount]]
            /\ orders' = [orders EXCEPT
                    ![reqs[h].orderId].totalAmount = reqs[h].totalAmount]
            /\ reqs' = [reqs EXCEPT ![h] =
                    [Responded(@, 200, FALSE) EXCEPT !.wrote = TRUE]]
       ELSE /\ reqs' = [reqs EXCEPT ![h] = Thrown(@)]
            /\ UNCHANGED <<orders, bills>>
    /\ UNCHANGED <<nextBillId, staleFor>>
    /\ StepFrame

(***************************************************************************)
(* PUT /bill/:orderId/store-link, call by call: findUnique (the order; the *)
(* clock is read), findUnique (the bill), then bill.update if a bill was   *)
(* seen, else bill.create with totalAmount = round(base of the items       *)
(* seen).  No transaction encloses them.                                   *)
(***************************************************************************)
LinkBegin(h, orderId, businessId, billStoreLink, cloudinaryPublicId, isModified, ok) ==
    /\ reqs[h].pc = "idle"
    /\ OrderExists(orderId)
    /\ orders[orderId].businessId = businessId
    /\ LET req == [IdleReq EXCEPT
                        !.op = "storeLink", !.orderId = orderId,
                        !.businessId = businessId, !.link = billStoreLink,
                        !.publicId = cloudinaryPublicId,
                        !.isModified = isModified,
                        !.expiresAt = now + BillTtl,
                        !.totalAmount =
                            round(baseAmountOf(orders[orderId].items))]
       IN reqs' = [reqs EXCEPT ![h] =
                IF ok THEN [req EXCEPT !.pc = "findBill"] ELSE Thrown(req)]
    /\ UNCHANGED <<dbVars, staleFor>>
    /\ StepFrame

LinkFindBill(h, ok) ==
    /\ reqs[h].op = "storeLink"
    /\ reqs[h].pc = "findBill"
    /\ reqs' = [reqs EXCEPT ![h] =
            IF ok THEN [@ EXCEPT !.pc = "write",
                                 !.sawBill = HasBill(reqs[h].orderId)]
            ELSE Thrown(@)]
    /\ UNCHANGED <<dbVars, staleFor>>
    /\ StepFrame

LinkWrite(h, ok) ==
    /\ reqs[h].op = "storeLink"
    /\ reqs[h].pc = "write"
    /\ LET req == reqs[h]
       IN IF req.sawBill
          THEN IF ok /\ HasBill(req.orderId)
               THEN /\ bills' = [bills EXCEPT ![BillIdOf(req.orderId)] =
                            WithLink(@, req.link, req.publicId,
                                     req.isModified, req.expiresAt)]
                    /\ reqs' = [reqs EXCEPT ![h] =
                            [Responded(@, 200, FALSE) EXCEPT !.wrote = TRUE]]
                    /\ UNCHANGED nextBillId
               ELSE /\ reqs' = [reqs EXCEPT ![h] = Thrown(@)]
                    /\ UNCHANGED <<bills, nextBillId>>
          ELSE IF ok /\ CanCreateBill(req.orderId)
               THEN /\ bills' = bills @@ (nextBillId :>
                            WithLink([NewBill(req.orderId, req.businessId)
                                        EXCEPT !.totalAmount = req.totalAmount],
                                     req.link, req.publicId,
                                     req.isModified, req.expiresAt))
                    /\ nextBillId' = nextBillId + 1
                    /\ reqs' = [reqs EXCEPT ![h] =
                            [Responded(@, 201, FALSE) EXCEPT !.wrote = TRUE]]
               ELSE /\ reqs' = [reqs EXCEPT ![h] = Thrown(@)]
                    /\ UNCHANGED <<bills, nextBillId>>
    /\ UNCHANGED <<orders, staleFor>>
    /\ StepFrame

(***************************************************************************)
(* PUT /bill/:orderId/update-items, call by call: findUnique (the order),  *)
(* then the transaction, which is the whole of UpdateItems.                *)
(***************************************************************************)
ItemsBegin(h, orderId, businessId, items, ok) ==
    /\ reqs[h].pc = "idle"
    /\ OrderExists(orderId)
    /\ orders[orderId].businessId = businessId
    /\ LET req == [IdleReq EXCEPT !.op = "updateItems", !.orderId = orderId,
                                  !.businessId = businessId, !.items = items]
       IN reqs' = [reqs EXCEPT ![h] =
                IF ok THEN [req EXCEPT !.pc = "tx"] ELSE Thrown(req)]
    /\ UNCHANGED <<dbVars, staleFor>>
    /\ StepFrame

ItemsTx(h, ok) ==
    /\ reqs[h].op = "updateItems"
    /\ reqs[h].pc = "tx"
    /\ IF ok
       THEN /\ UpdateItems(reqs[h].orderId, reqs[h].businessId, reqs[h].items)
            /\ reqs' = [reqs EXCEPT ![h] =
                    [Responded(@, 200, FALSE) EXCEPT !.wrote = TRUE]]
       ELSE /\ reqs' = [reqs EXCEPT ![h] = Thrown(@)]
            /\ UNCHANGED dbVars
    /\ UNCHANGED staleFor
    /\ StepFrame

(***************************************************************************)
(* The reaper: one firing of the cron callback.  It reads the clock and    *)
(* selects the bills with expiresAt <= now (in whatever order the          *)
(* datastore returns them); then, bill by bill of that snapshot, it asks   *)
(* the image store to delete billStorePublicId if the snapshot has one     *)
(* (a failed request is caught inside deleteFromCloudinary) and deletes    *)
(* the bill row by id.  A row deletion that throws (the row is gone) ends  *)
(* the loop: the try block encloses the whole loop.                        *)
(***************************************************************************)
Expired(t) == {id \in DOMAIN bills :
                    bills[id].expiresAt # Null /\ bills[id].expiresAt <= t}

Orderings(S) == {f \in [1..Cardinality(S) -> S] :
                    \A i, j \in 1..Cardinality(S) : f[i] = f[j] => i = j}

RunStart(r, found) ==
    /\ runs[r].pc = "idle"
    /\ found \in Orderings(Expired(now))
    /\ runs' = [runs EXCEPT ![r] =
            [@ EXCEPT !.pc = IF Len(found) = 0 THEN "done" ELSE "loop",
                      !.expiredBills =
                            [i \in 1..Len(found) |->
                                [id |-> found[i],
                                 billStorePublicId |->
                                    bills[found[i]].billStorePublicId]]]]
    /\ UNCHANGED <<orders, bills, nextBillId, now, lastCharges, calcVars>>

CurrentBill(r) == runs[r].expiredBills[runs[r].idx]

\* deleteFromCloudinary rethrowing the request's error
deleteFromCloudinaryThrowing(r, ok) ==
    /\ runs[r].pc = "loop"
    /\ CurrentBill(r).billStorePublicId # Null
    /\ ~runs[r].imageDone
    /\ runs' = [runs EXCEPT ![r] =
            [@ EXCEPT !.imageDone = ok,
                      !.pc = IF ok THEN "loop" ELSE "done",
                      !.log = Append(@, [kind |-> "image",
                                         id |-> CurrentBill(r).id,
                                         publicId |-> CurrentBill(r).billStorePublicId,
                                         ok |-> ok])]]
    /\ UNCHANGED <<orders, bills, nextBillId, now, lastCharges, calcVars>>

\* ok: whether the image store's destroy request succeeded
deleteFromCloudinary(r, ok) ==
    /\ runs[r].pc = "loop"
    /\ CurrentBill(r).billStorePublicId # Null
    /\ ~runs[r].imageDone
    /\ runs' = [runs EXCEPT ![r] =
            [@ EXCEPT !.imageDone = TRUE,
                      !.log = Append(@, [kind |-> "image",
                                         id |-> CurrentBill(r).id,
                                         publicId |-> CurrentBill(r).billStorePublicId,
                                         ok |-> ok])]]
    /\ UNCHANGED <<orders, bills, nextBillId, now, lastCharges, calcVars>>

\* prisma.bill.delete({ where: { id: bill.id } })
RunDeleteRow(r) ==
    /\ runs[r].pc = "loop"
    /\ CurrentBill(r).billStorePublicId = Null \/ runs[r].imageDone
    /\ LET id == CurrentBill(r).id
           found == id \in DOMAIN bills
       IN /\ bills' = IF found
                      THEN [i \in DOMAIN bills \ {id} |-> bills[i]]
                      ELSE bills
          /\ runs' = [runs EXCEPT ![r] =
                [@ EXCEPT !.pc = IF found /\ runs[r].idx < Len(runs[r].expiredBills)
                                 THEN "loop" ELSE "done",
                          !.idx = IF found THEN @ + 1 ELSE @,
                          !.imageDone = FALSE,
                          !.log = Append(@, [kind |-> "row", id |-> id,
                                             publicId |-> Null,
                                             ok |-> found])]]
          /\ lastCharges' = IF found THEN <<>> ELSE lastCharges
    /\ UNCHANGED <<orders, nextBillId, now, calcVars>>

\* prisma.bill.delete rejects though the row is there (a datastore error):
\* the catch around the whole loop ends the run
RunDeleteRowThrows(r) ==
    /\ runs[r].pc = "loop"
    /\ CurrentBill(r).billStorePublicId = Null \/ runs[r].imageDone
    /\ CurrentBill(r).id \in DOMAIN bills
    /\ runs' = [runs EXCEPT ![r] =
            [@ EXCEPT !.pc = "done",
                      !.imageDone = FALSE,
                      !.log = Append(@, [kind |-> "row", id |-> CurrentBill(r).id,
                                         publicId |-> Null, ok |-> FALSE])]]
    /\ UNCHANGED <<orders, bills, nextBillId, now, lastCharges, calcVars>>

\* the callback returns; the cron schedule can fire it again
RunEnd(r) ==
    /\ runs[r].pc = "done"
    /\ runs' = [runs EXCEPT ![r] = IdleRun]
    /\ UNCHANGED <<orders, bills, nextBillId, now, lastCharges, calcVars>>

\* time passes
Tick ==
    /\ now' = now + 1
    /\ UNCHANGED <<orders, bills, nextBillId, runs, lastCharges, calcVars>>

(***************************************************************************)
(* Bounded requests.  Every handler reads and writes one order and that    *)
(* order's bill, so the request handlers are followed on one order; the    *)
(* reaper, which works through several bills, is followed on two.          *)
(***************************************************************************)
MaxQty == 2
OrderIds == {1}
Businesses == {1, 2}
StatusSet == {"Pending", "Completed"}
ProductIds == {1, 2}
\* what a cart carries for a line: the product's name and price, a
\* quantity, and a status that may be absent ("")
Tea(q, s) == [productId |-> 1, name |-> "Tea", price |-> 2500,
              quantity |-> q, status |-> s]
Naan(s) == [productId |-> 2, name |-> "Naan", price |-> 11000,
            quantity |-> 1, status |-> s]
CartSet ==
    UNION {{<<Tea(q, "")>>, <<Tea(q, "Completed")>>,
            <<Tea(q, ""), Naan("Completed")>>,
            <<Tea(q, "Completed"), Naan("Completed")>>} : q \in 1..MaxQty}
\* update-items lines carry no status; productId may be absent
Extra == [productId |-> Null, name |-> "Extra", price |-> 11000, quantity |-> 1]
BillItemSet ==
    {<<>>, <<Extra>>,
     <<[productId |-> 1, name |-> "Tea", price |-> 2500, quantity |-> MaxQty],
       Extra>>}
TotalSet == {5000}
ChargeSet == [vatLow : {Null, 0, 5}, vatHigh : {Null},
              serviceTax : {Null}, serviceCharge : {Null, 10}]
LinkSet == {1}

(***************************************************************************)
(* The request handlers, each as one step.                                 *)
(***************************************************************************)
Next ==
    \/ \E c \in CartSet, t \in TotalSet :
            Len(orders) < Cardinality(OrderIds) /\ PlaceOrder(1, c, t, 0) /\ UNCHANGED <<uploaded, stepVars>>
    \/ \E o \in OrderIds, b \in Businesses, c \in CartSet, t \in TotalSet :
            ReplaceOrder(o, b, c, t) /\ UNCHANGED <<uploaded, stepVars>>
    \/ \E o \in OrderIds, b \in Businesses, st \in StatusSet :
            PatchOrderStatus(o, b, st) /\ UNCHANGED <<uploaded, stepVars>> /\ NotAnOrder
    \/ \E o \in OrderIds, b \in Businesses, p \in ProductIds, st \in StatusSet :
            PatchItemStatus(o, b, p, st) /\ UNCHANGED <<uploaded, stepVars>> /\ NotAnOrder
    \/ \E o \in OrderIds, b \in Businesses : CompleteAll(o, b) /\ UNCHANGED <<uploaded, stepVars>> /\ NotAnOrder
    \/ \E o \in OrderIds, b \in Businesses, tr \in ChargeSet :
            PostBill(o, b, tr) /\ UNCHANGED <<uploaded, stepVars>> /\ NotAnOrder
    \/ \E o \in OrderIds, b \in Businesses, tr \in ChargeSet :
            UpdateCharges(o, b, tr) /\ UNCHANGED <<uploaded, stepVars>> /\ NotAnOrder
    \/ \E o \in OrderIds, b \in Businesses, l \in LinkSet, m \in BOOLEAN :
            StoreLink(o, b, l, 1, m) /\ UNCHANGED <<uploaded, stepVars>> /\ NotAnOrder
    \/ \E o \in OrderIds, b \in Businesses, its \in BillItemSet :
            UpdateItems(o, b, its) /\ UNCHANGED <<uploaded, stepVars>> /\ NotAnOrder

Spec == Init /\ [][Next]_vars

(***************************************************************************)
(* The reaper beside the requests that give bills an expiry: orders are    *)
(* placed, store-link creates or renews bills, time passes, and the cron   *)
(* callback fires, possibly again before the last firing has finished.     *)
(***************************************************************************)
MaxTime == 1
MaxUploads == 3
ReaperOrderIds == {1, 2}

NextReaper ==
    \/ /\ Len(orders) < Cardinality(ReaperOrderIds)
       /\ PlaceOrder(1, <<Tea(1, "")>>, 5000, 0)
       /\ UNCHANGED <<uploaded, stepVars>>
    \* a client uploads a bill image, gets its identifier, and stores the link
    \/ \E o \in ReaperOrderIds, m \in BOOLEAN :
            /\ uploaded < MaxUploads
            /\ uploaded' = uploaded + 1
            /\ StoreLink(o, 1, uploaded + 1, uploaded + 1, m)
            /\ NotAnOrder
            /\ UNCHANGED stepVars
    \/ now < MaxTime /\ Tick /\ UNCHANGED <<uploaded, stepVars>> /\ NotAnOrder
    \/ \E r \in Runs, found \in Orderings(Expired(now)) :
            RunStart(r, found) /\ UNCHANGED <<uploaded, stepVars>> /\ NotAnOrder
    \/ \E r \in Runs, ok \in BOOLEAN :
            deleteFromCloudinary(r, ok) /\ UNCHANGED <<uploaded, stepVars>> /\ NotAnOrder
    \/ \E r \in Runs : RunDeleteRow(r) /\ UNCHANGED <<uploaded, stepVars>> /\ NotAnOrder
    \/ \E r \in Runs : RunEnd(r) /\ UNCHANGED <<uploaded, stepVars>> /\ NotAnOrder

SpecReaper == Init /\ [][NextReaper]_vars

(***************************************************************************)
(* Serving: an order is placed with its items pending, and two handlers    *)
(* of the item-status PATCH run beside each other on that order.           *)
(***************************************************************************)
ServeCarts == {<<Tea(1, "")>>, <<Tea(1, ""), Naan("")>>}

NextServe ==
    \/ \E c \in ServeCarts :
            /\ Len(orders) < 1
            /\ PlaceOrder(1, c, 5000, 0)
            /\ Written
            /\ UNCHANGED <<uploaded, reqs>>
    \/ \E h \in Handlers, p \in ProductIds, st \in StatusSet, ok \in BOOLEAN :
            PatchBegin(h, 1, 1, p, st, ok)
    \/ \E h \in Handlers, ok \in BOOLEAN : PatchUpdateMany(h, ok)
    \/ \E h \in Handlers, ok \in BOOLEAN : PatchFindUnique(h, ok)
    \/ \E h \in Handlers, ok \in BOOLEAN : PatchUpdate(h, ok)
    \/ \E h \in Handlers : ReqEnd(h)

SpecServe == Init /\ [][NextServe]_vars

(***************************************************************************)
(* Billing beside order editing: an order is placed, and two handlers of   *)
(* the order PUT and the bill endpoints run beside each other on it, every *)
(* request carrying at least one item.                                     *)
(***************************************************************************)
StepRates == {NoRates, [NoRates EXCEPT !.vatLow = 5]}

NextSteps ==
    \/ /\ Len(orders) < 1
       /\ PlaceOrder(1, <<Tea(1, "")>>, 5000, 0)
       /\ UNCHANGED <<uploaded, stepVars>>
    \/ \E h \in Handlers, ok \in BOOLEAN :
            PutBegin(h, 1, 1, <<Naan("Completed")>>, 5000, Null, 0, ok)
    \/ \E h \in Handlers, ok \in BOOLEAN : PutDeleteMany(h, ok)
    \/ \E h \in Handlers, ok \in BOOLEAN : PutUpdate(h, ok)
    \/ \E h \in Handlers, ok \in BOOLEAN : PutStatus(h, ok)
    \/ \E h \in Handlers, tr \in StepRates, ok \in BOOLEAN :
            BillBegin(h, 1, 1, tr, ok)
    \/ \E h \in Handlers, ok \in BOOLEAN : BillTx(h, ok)
    \/ \E h \in Handlers, ok \in BOOLEAN :
            ChargesBegin(h, 1, 1, [NoRates EXCEPT !.serviceCharge = 10], ok)
    \/ \E h \in Handlers, ok \in BOOLEAN : ChargesTx(h, ok)
    \/ \E h \in Handlers, m \in BOOLEAN, ok \in BOOLEAN :
            LinkBegin(h, 1, 1, 1, 1, m, ok)
    \/ \E h \in Handlers, ok \in BOOLEAN : LinkFindBill(h, ok)
    \/ \E h \in Handlers, ok \in BOOLEAN : LinkWrite(h, ok)
    \/ \E h \in Handlers, ok \in BOOLEAN : ItemsBegin(h, 1, 1, <<Extra>>, ok)
    \/ \E h \in Handlers, ok \in BOOLEAN : ItemsTx(h, ok)
    \/ \E h \in Handlers : ReqEnd(h)

SpecSteps == Init /\ [][NextSteps]_vars

(***************************************************************************)
(* Datastore errors: one handler at a time serves a request of any of the  *)
(* endpoints, and any of its datastore calls may throw.                    *)
(***************************************************************************)
NextErrors ==
    \/ /\ Len(orders) < 1
       /\ PlaceOrder(1, <<Tea(1, "")>>, 5000, 0)
       /\ UNCHANGED <<uploaded, stepVars>>
    \/ \E p \in ProductIds, ok \in BOOLEAN :
            PatchBegin(1, 1, 1, p, "Completed", ok)
    \/ \E ok \in BOOLEAN : PatchUpdateMany(1, ok)
    \/ \E ok \in BOOLEAN : PatchFindUnique(1, ok)
    \/ \E ok \in BOOLEAN : PatchUpdate(1, ok)
    \/ \E ok \in BOOLEAN : PutBegin(1, 1, 1, <<Naan("Completed")>>, 5000, Null, 0, ok)
    \/ \E ok \in BOOLEAN : PutDeleteMany(1, ok)
    \/ \E ok \in BOOLEAN : PutUpdate(1, ok)
    \/ \E ok \in BOOLEAN : PutStatus(1, ok)
    \/ \E tr \in StepRates, ok \in BOOLEAN : BillBegin(1, 1, 1, tr, ok)
    \/ \E ok \in BOOLEAN : BillTx(1, ok)
    \/ \E tr \in StepRates, ok \in BOOLEAN : ChargesBegin(1, 1, 1, tr, ok)
    \/ \E ok \in BOOLEAN : ChargesTx(1, ok)
    \/ \E m \in BOOLEAN, ok \in BOOLEAN : LinkBegin(1, 1, 1, 1, 1, m, ok)
    \/ \E ok \in BOOLEAN : LinkFindBill(1, ok)
    \/ \E ok \in BOOLEAN : LinkWrite(1, ok)
    \/ \E ok \in BOOLEAN : ItemsBegin(1, 1, 1, <<Extra>>, ok)
    \/ \E ok \in BOOLEAN : ItemsTx(1, ok)
    \/ \E op \in ReadOps, ok \in BOOLEAN : ReadRequest(1, op, 1, 1, ok)
    \/ ReqEnd(1)

SpecErrors == Init /\ [][NextErrors]_vars

(***************************************************************************)
(* Orders placed against a stocked inventory: two businesses stock milk,   *)
(* one of them flour (less than a naan needs), sugar and salt.             *)
(***************************************************************************)
MaxPlaced == 2

Stock ==
    <<[name |-> "Milk", businessId |-> 1, quantity |-> 10],
      [name |-> "Milk", businessId |-> 2, quantity |-> 10],
      [name |-> "Flour", businessId |-> 1, quantity |-> 1],
      [name |-> "Sugar", businessId |-> 1, quantity |-> 10],
      [name |-> "Salt", businessId |-> 1, quantity |-> 10]>>

InitStocked ==
    /\ calcIn = [baseAmount |-> 0,
                 taxRates |-> [vatLow |-> Null, vatHigh |-> Null,
                               serviceTax |-> Null, serviceCharge |-> Null]]
    /\ calcOut = NoResult
    /\ calcPrev = [in |-> calcIn, out |-> NoResult]
    /\ orders = <<>>
    /\ bills = <<>>
    /\ nextBillId = 1
    /\ now = 0
    /\ uploaded = 0
    /\ runs = [r \in Runs |-> IdleRun]
    /\ lastCharges = <<>>
    /\ inventory = Stock
    /\ placed = <<>>
    /\ reqs = [h \in Handlers |-> IdleReq]
    /\ staleFor = 0
    /\ tables = NoTables
    /\ seated = {}
    /\ customers = NoCustomers

NextInventory ==
    \E b \in Businesses, c \in CartSet, t \in TotalSet :
      \E failAt \in 0..Len(InventoryOps(c)) :
        /\ Len(orders) < MaxPlaced
        /\ PlaceOrder(b, c, t, failAt)
        /\ UNCHANGED <<uploaded, stepVars>>

SpecInventory == InitStocked /\ [][NextInventory]_vars

(***************************************************************************)
(* The kitchen's requests on two orders: orders are placed and their items *)
(* are served one product at a time or all at once.                        *)
(***************************************************************************)
KitchenOrderIds == {1, 2}
KitchenCarts == {<<Tea(1, ""), Naan("")>>, <<Tea(MaxQty, ""), Tea(1, "Completed")>>}

NextKitchen ==
    \/ \E c \in KitchenCarts :
            /\ Len(orders) < Cardinality(KitchenOrderIds)
            /\ PlaceOrder(1, c, 5000, 0)
            /\ UNCHANGED <<uploaded, stepVars>>
    \/ \E o \in KitchenOrderIds, b \in Businesses, p \in ProductIds, st \in StatusSet :
            PatchItemStatus(o, b, p, st) /\ UNCHANGED <<uploaded, stepVars>> /\ NotAnOrder
    \/ \E o \in KitchenOrderIds, b \in Businesses :
            CompleteAll(o, b) /\ UNCHANGED <<uploaded, stepVars>> /\ NotAnOrder
    \/ \E o \in KitchenOrderIds, b \in Businesses, its \in BillItemSet :
            UpdateItems(o, b, its) /\ UNCHANGED <<uploaded, stepVars>> /\ NotAnOrder

SpecKitchen == Init /\ [][NextKitchen]_vars

(***************************************************************************)
(* The bill image links: an order is placed, billed and charged, links to  *)
(* uploaded images are stored, and time passes between the requests.       *)
(***************************************************************************)
LinkIds == {1, 2}

NextLinks ==
    \/ \E c \in {<<Tea(1, "")>>} :
            Len(orders) < 1 /\ PlaceOrder(1, c, 5000, 0) /\ UNCHANGED <<uploaded, stepVars>>
    \/ \E o \in OrderIds, b \in Businesses, tr \in ChargeSet :
            PostBill(o, b, tr) /\ UNCHANGED <<uploaded, stepVars>> /\ NotAnOrder
    \/ \E o \in OrderIds, b \in Businesses, tr \in ChargeSet :
            UpdateCharges(o, b, tr) /\ UNCHANGED <<uploaded, stepVars>> /\ NotAnOrder
    \/ \E o \in OrderIds, b \in Businesses, l \in LinkIds, m \in BOOLEAN :
            StoreLink(o, b, l, l, m) /\ UNCHANGED <<uploaded, stepVars>> /\ NotAnOrder
    \/ now < MaxTime /\ Tick /\ UNCHANGED <<uploaded, stepVars>> /\ NotAnOrder

SpecLinks == Init /\ [][NextLinks]_vars

(***************************************************************************)
(* Item-status PATCH requests racing on one order of two items, both       *)
(* stored Pending, with a datastore that never throws.                     *)
(***************************************************************************)
RaceCart == <<Tea(1, ""), Naan("")>>

NextRace ==
    \/ /\ Len(orders) < 1
       /\ PlaceOrder(1, RaceCart, 5000, 0)
       /\ Written
       /\ UNCHANGED <<uploaded, reqs>>
    \/ \E h \in Handlers, p \in ProductIds, st \in StatusSet :
            PatchBegin(h, 1, 1, p, st, TRUE)
    \/ \E h \in Handlers : PatchUpdateMany(h, TRUE)
    \/ \E h \in Handlers : PatchFindUnique(h, TRUE)
    \/ \E h \in Handlers : PatchUpdate(h, TRUE)
    \/ \E h \in Handlers : ReqEnd(h)

SpecRace == Init /\ [][NextRace]_vars

(***************************************************************************)
(* Orders placed at a table by a signed-in customer: one table, not yet    *)
(* booked, and one customer with StartPoints points.  Two requests can be  *)
(* under way at once; the datastore never throws.                          *)
(***************************************************************************)
StartPoints == 1
FloorTables == {Null, 1}
FloorCustomers == {Null, 1}
FloorTotals == {5000, 1000000}
FloorCart == <<Tea(1, "")>>

InitFloor ==
    /\ calcIn = [baseAmount |-> 0,
                 taxRates |-> [vatLow |-> Null, vatHigh |-> Null,
                               serviceTax |-> Null, serviceCharge |-> Null]]
    /\ calcOut = NoResult
    /\ calcPrev = [in |-> calcIn, out |-> NoResult]
    /\ orders = <<>>
    /\ bills = <<>>
    /\ nextBillId = 1
    /\ now = 0
    /\ uploaded = 0
    /\ runs = [r \in Runs |-> IdleRun]
    /\ lastCharges = <<>>
    /\ inventory = <<>>
    /\ placed = <<>>
    /\ reqs = [h \in Handlers |-> IdleReq]
    /\ staleFor = 0
    /\ tables = [id \in {1} |-> [isBooked |-> FALSE, orderId |-> Null]]
    /\ seated = {}
    /\ customers = [id \in {1} |-> [points |-> StartPoints]]

NextFloor ==
    \/ \E h \in Handlers, t \in FloorTables, c \in FloorCustomers :
        \E total \in FloorTotals, p \in 0..StartPoints :
            /\ Len(orders) < MaxPlaced
            /\ OrderBegin(h, 1, t, c, FloorCart, total, p)
    \/ \E h \in Handlers : OrderCreate(h)
    \/ \E h \in Handlers : OrderLinkTable(h)
    \/ \E h \in Handlers : FindCustomer(h)
    \/ \E h \in Handlers : RedeemPoints(h)
    \/ \E h \in Handlers : OrderEarn(h)
    \/ \E h \in Handlers : OrderInventory(h)
    \/ \E h \in Handlers, p \in 1..StartPoints :
            PutBegin(h, 1, 1, FloorCart, 5000, 1, p, TRUE)
    \/ \E h \in Handlers : PutDeleteMany(h, TRUE)
    \/ \E h \in Handlers : PutUpdate(h, TRUE)
    \/ \E h \in Handlers : PutStatus(h, TRUE)
    \/ \E h \in Handlers : ReqEnd(h)

SpecFloor == InitFloor /\ [][NextFloor]_vars

(***************************************************************************)
(* Orders placed and then replaced through PUT /orders/:orderId, over the  *)
(* stocked inventory, with a datastore that never throws.  Every PUT takes *)
(* stock again, so requests are followed while no row has fallen below     *)
(* -MaxDebt.                                                               *)
(***************************************************************************)
MaxDebt == 4
RestockCarts == {<<Tea(1, "")>>, <<Tea(MaxQty, "")>>, <<Tea(1, ""), Naan("")>>}

NextRestock ==
    \/ \E b \in Businesses, c \in RestockCarts :
            /\ Len(orders) < MaxPlaced
            /\ PlaceOrder(b, c, 5000, 0)
            /\ UNCHANGED <<uploaded, stepVars>>
    \/ \E o \in 1..MaxPlaced, b \in Businesses, c \in RestockCarts :
            /\ \A id \in DOMAIN inventory : inventory[id].quantity >= -MaxDebt
            /\ ReplaceOrder(o, b, c, 5000)
            /\ UNCHANGED <<uploaded, stepVars>>

SpecRestock == InitStocked /\ [][NextRestock]_vars

(***************************************************************************)
(* The three handlers that write a total to the bill and to the order,     *)
(* call by call, two at once, each call free to throw; store-link runs as  *)
(* one step beside them so that update-charges can find a bill that POST   *)
(* /bill did not create.                                                   *)
(***************************************************************************)
NextTotals ==
    \/ \E c \in {<<Tea(1, "")>>, <<Tea(MaxQty, ""), Naan("")>>} :
            /\ Len(orders) < 1
            /\ PlaceOrder(1, c, 5000, 0)
            /\ UNCHANGED <<uploaded, stepVars>>
    \/ \E h \in Handlers, tr \in StepRates, ok \in BOOLEAN :
            BillBegin(h, 1, 1, tr, ok)
    \/ \E h \in Handlers, ok \in BOOLEAN : BillTx(h, ok)
    \/ \E h \in Handlers, ok \in BOOLEAN :
            ChargesBegin(h, 1, 1, [NoRates EXCEPT !.serviceCharge = 10], ok)
    \/ \E h \in Handlers, ok \in BOOLEAN : ChargesTx(h, ok)
    \/ \E h \in Handlers, its \in BillItemSet, ok \in BOOLEAN :
            ItemsBegin(h, 1, 1, its, ok)
    \/ \E h \in Handlers, ok \in BOOLEAN : ItemsTx(h, ok)
    \/ \E h \in Handlers : ReqEnd(h)
    \/ \E m \in BOOLEAN :
            StoreLink(1, 1, 1, 1, m) /\ UNCHANGED <<uploaded, stepVars>> /\ NotAnOrder

SpecTotals == Init /\ [][NextTotals]_vars

(***************************************************************************)
(* The reaper as the cron schedule keeps firing it, one firing at a time:  *)
(* every firing that has started goes on to its end, and the schedule      *)
(* fires again.  A row deletion may be rejected by the datastore; the      *)
(* deletion of the bill with id SweptBill, whenever the reaper keeps       *)
(* reaching it, is not rejected for ever.                                  *)
(***************************************************************************)
SweepOrderIds == {1, 2}
SweptBill == 2

\* what a step of the reaper leaves alone
SweepFrame == UNCHANGED <<uploaded, stepVars>> /\ NotAnOrder
\* the schedule fires the callback
SweepStart == \E found \in Orderings(Expired(now)) : RunStart(1, found) /\ SweepFrame
\* the row deletion of the bill at hand succeeds
SweepDelete == RunDeleteRow(1) /\ SweepFrame
\* any other step of the firing under way
SweepStep ==
    \/ \E ok \in BOOLEAN : deleteFromCloudinary(1, ok) /\ SweepFrame
    \/ RunDeleteRowThrows(1) /\ SweepFrame
    \/ RunEnd(1) /\ SweepFrame

NextSweep ==
    \/ /\ Len(orders) < Cardinality(SweepOrderIds)
       /\ PlaceOrder(1, <<Tea(1, "")>>, 5000, 0)
       /\ UNCHANGED <<uploaded, stepVars>>
    \/ \E o \in SweepOrderIds, m \in BOOLEAN :
            /\ uploaded < MaxUploads
            /\ uploaded' = uploaded + 1
            /\ StoreLink(o, 1, uploaded + 1, uploaded + 1, m)
            /\ NotAnOrder
            /\ UNCHANGED stepVars
    \/ now < MaxTime /\ Tick /\ UNCHANGED <<uploaded, stepVars>> /\ NotAnOrder
    \/ SweepStart
    \/ SweepStep
    \/ SweepDelete

SweepFairness ==
    /\ WF_vars(SweepStart)
    /\ WF_vars(SweepStep \/ SweepDelete)
    /\ SF_vars(SweepDelete /\ CurrentBill(1).id = SweptBill)

SpecSweep == Init /\ [][NextSweep]_vars /\ SweepFairness

(***************************************************************************)
(* C1: every stored bill's totalAmount equals calculateTotals(sum of       *)
(* price * quantity over the order's current items, the bill's stored      *)
(* rates).totalAmount.                                                     *)
(***************************************************************************)
C1_BillTotalNeverStale ==
    \A id \in DOMAIN bills :
        bills[id].totalAmount =
            calculateTotals(baseAmountOf(orders[bills[id].orderId].items),
                            RatesOf(bills[id])).totalAmount

(***************************************************************************)
(* C2: an order's stored status is Completed exactly when the order has    *)
(* at least one item and all its items are Completed, and Pending          *)
(* otherwise.                                                              *)
(***************************************************************************)
C2_OrderStatusFollowsItems ==
    \A o \in 1..Len(orders) :
        /\ orders[o].status \in {"Pending", "Completed"}
        /\ orders[o].status = "Completed" <=>
                /\ Len(orders[o].items) > 0
                /\ \A i \in 1..Len(orders[o].items) :
                        orders[o].items[i].status = "Completed"

(***************************************************************************)
(* C3: calculateTotals returns totalAmount = base + the sum of the four    *)
(* rounded amounts it returns (round each amount, then sum).               *)
(***************************************************************************)
C3_TotalIsBasePlusRoundedAmounts ==
    calcOut # NoResult =>
        calcOut.totalAmount =
            calcIn.baseAmount + calcOut.vatLowAmount + calcOut.vatHighAmount
            + calcOut.serviceTaxAmount + calcOut.serviceChargeAmount

(***************************************************************************)
(* C4: each returned amount is base * rate / 100 rounded half-up to two    *)
(* decimals (the multiple of 0.01 within half a cent, ties upwards), is 0  *)
(* for a null rate, and calculateTotals(100, {10, 5, 0, 0}) gives 10, 5    *)
(* and 115.                                                                *)
(***************************************************************************)
IsHalfUp(baseAmount, rate, amount) ==
    /\ amount % 100 = 0
    /\ 100 * amount - 5000 <= baseAmount * NullAsZero(rate)
    /\ baseAmount * NullAsZero(rate) < 100 * amount + 5000

C4_AmountsRoundedHalfUp ==
    calcOut # NoResult =>
        /\ IsHalfUp(calcIn.baseAmount, calcIn.taxRates.vatLow, calcOut.vatLowAmount)
        /\ IsHalfUp(calcIn.baseAmount, calcIn.taxRates.vatHigh, calcOut.vatHighAmount)
        /\ IsHalfUp(calcIn.baseAmount, calcIn.taxRates.serviceTax,
                    calcOut.serviceTaxAmount)
        /\ IsHalfUp(calcIn.baseAmount, calcIn.taxRates.serviceCharge,
                    calcOut.serviceChargeAmount)
        /\ calcIn.taxRates.vatLow = Null => calcOut.vatLowAmount = 0
        /\ calcIn.taxRates.vatHigh = Null => calcOut.vatHighAmount = 0
        /\ calcIn.taxRates.serviceTax = Null => calcOut.serviceTaxAmount = 0
        /\ calcIn.taxRates.serviceCharge = Null => calcOut.serviceChargeAmount = 0
        /\ (calcIn = [baseAmount |-> 1000000,
                      taxRates |-> [vatLow |-> 10, vatHigh |-> 5,
                                    serviceTax |-> 0, serviceCharge |-> 0]])
            => /\ calcOut.vatLowAmount = 100000
               /\ calcOut.vatHighAmount = 50000
               /\ calcOut.totalAmount = 1150000

\* the worked example has been computed
C4_Witness ==
    /\ calcIn = [baseAmount |-> 1000000,
                 taxRates |-> [vatLow |-> 10, vatHigh |-> 5,
                               serviceTax |-> 0, serviceCharge |-> 0]]
    /\ calcOut.vatLowAmount = 100000
    /\ calcOut.vatHighAmount = 50000
    /\ calcOut.totalAmount = 1150000

(***************************************************************************)
(* C5: raising the base amount or one rate (null counting as 0), the       *)
(* others fixed, never lowers totalAmount.                                 *)
(***************************************************************************)
C5_TotalMonotone ==
    (calcPrev.out # NoResult /\ calcOut # NoResult) =>
        calcPrev.out.totalAmount <= calcOut.totalAmount

C5_Witness ==
    /\ calcPrev.out # NoResult
    /\ calcOut # NoResult
    /\ calcPrev.in.taxRates.serviceCharge = 5
    /\ calcIn.taxRates.serviceCharge = 10
    /\ calcPrev.out.totalAmount < calcOut.totalAmount

(***************************************************************************)
(* C6: a second update-charges request with the same rates, with no write  *)
(* of the order's items since the first, stores and returns the same bill  *)
(* totalAmount and leaves the stored rates and the order's totalAmount as  *)
(* the first call left them.                                               *)
(***************************************************************************)
C6_UpdateChargesIdempotent ==
    (lastCharges # <<>> /\ lastCharges[1].count = 2) =>
        LET h == lastCharges[1]
        IN /\ HasBill(h.orderId)
           /\ h.totalAmount = h.first.totalAmount
           /\ BillOf(h.orderId).totalAmount = h.first.bill.totalAmount
           /\ RatesOf(BillOf(h.orderId)) = RatesOf(h.first.bill)
           /\ orders[h.orderId].totalAmount = h.first.orderTotal

\* the second call has been made, with rates that change the total
C6_Witness ==
    /\ lastCharges # <<>>
    /\ lastCharges[1].count = 2
    /\ lastCharges[1].rates.vatLow = 5
    /\ lastCharges[1].totalAmount > baseAmountOf(orders[lastCharges[1].orderId].items)

(***************************************************************************)
(* The requests a run of the reaper has made, from its log.                *)
(***************************************************************************)
ImageRequests(r, id) ==
    {k \in 1..Len(runs[r].log) :
        runs[r].log[k].kind = "image" /\ runs[r].log[k].id = id}
RowDeletions(r, id) ==
    {k \in 1..Len(runs[r].log) :
        runs[r].log[k].kind = "row" /\ runs[r].log[k].id = id}

(***************************************************************************)
(* C7: when a run of the reaper has ended, every bill it selected that     *)
(* had an image identifier is deleted, and the run asked the image store   *)
(* to delete that identifier exactly once, before it deleted the row.      *)
(***************************************************************************)
C7_ExpiredBillImageThenRow ==
    \A r \in Runs :
        runs[r].pc = "done" =>
            \A i \in 1..Len(runs[r].expiredBills) :
                LET b == runs[r].expiredBills[i]
                IN b.billStorePublicId # Null =>
                    /\ b.id \notin DOMAIN bills
                    /\ Cardinality(ImageRequests(r, b.id)) = 1
                    /\ \A k \in ImageRequests(r, b.id) :
                            /\ runs[r].log[k].publicId = b.billStorePublicId
                            /\ \E j \in RowDeletions(r, b.id) : k < j

(***************************************************************************)
(* C8: after a failed image-store request for a bill, the run's next step  *)
(* is that bill's row deletion, after which the row is gone; the image     *)
(* request is not made again.                                              *)
(***************************************************************************)
C8_ImageFailureDoesNotBlockRow ==
    \A r \in Runs :
        \A k \in 1..Len(runs[r].log) :
            LET e == runs[r].log[k]
            IN (e.kind = "image" /\ ~e.ok) =>
                /\ Cardinality(ImageRequests(r, e.id)) = 1
                /\ \/ /\ k = Len(runs[r].log)
                      /\ runs[r].pc = "loop"
                      /\ runs[r].imageDone
                      /\ CurrentBill(r).id = e.id
                   \/ /\ k < Len(runs[r].log)
                      /\ runs[r].log[k + 1].kind = "row"
                      /\ runs[r].log[k + 1].id = e.id
                      /\ e.id \notin DOMAIN bills

\* an image request failed and the same run then deleted the row
C8_Witness ==
    \E r \in Runs :
        \E k \in 1..(Len(runs[r].log) - 1) :
            /\ runs[r].log[k].kind = "image"
            /\ ~runs[r].log[k].ok
            /\ runs[r].log[k + 1].kind = "row"
            /\ runs[r].log[k + 1].ok
            /\ runs[r].log[k + 1].id = runs[r].log[k].id

(***************************************************************************)
(* C9: a failure on one bill does not end the batch: when a run has ended, *)
(* it has processed every bill it selected, and each is deleted.           *)
(***************************************************************************)
C9_FailureDoesNotAbortBatch ==
    \A r \in Runs :
        runs[r].pc = "done" =>
            \A i \in 1..Len(runs[r].expiredBills) :
                /\ RowDeletions(r, runs[r].expiredBills[i].id) # {}
                /\ runs[r].expiredBills[i].id \notin DOMAIN bills

(***************************************************************************)
(* C10: whatever requests run beside the reaper, a bill row is deleted,    *)
(* and a bill's image is asked to be deleted, only while the bill's stored *)
(* expiresAt is at or before the current time.                             *)
(***************************************************************************)
C10_ReaperTouchesOnlyExpired ==
    [][/\ \A id \in DOMAIN bills :
            id \notin DOMAIN bills' =>
                bills[id].expiresAt # Null /\ bills[id].expiresAt <= now
       /\ \A r \in Runs :
            (/\ Len(runs'[r].log) > Len(runs[r].log)
             /\ runs'[r].log[Len(runs'[r].log)].kind = "image"
             /\ runs'[r].log[Len(runs'[r].log)].id \in DOMAIN bills) =>
                LET bill == bills[runs'[r].log[Len(runs'[r].log)].id]
                IN bill.expiresAt # Null /\ bill.expiresAt <= now]_vars

(***************************************************************************)
(* C13: a PATCH of one item's status leaves the name, price and quantity   *)
(* of every item of the order as they were, and leaves every item of every *)
(* other order as it was.                                                  *)
(***************************************************************************)
Snapshot(item) == [name |-> item.name, price |-> item.price,
                   quantity |-> item.quantity]

C13_PatchKeepsSnapshots ==
    [][\A o \in KitchenOrderIds, b \in Businesses, p \in ProductIds,
         st \in StatusSet :
            PatchItemStatus(o, b, p, st) =>
                /\ Len(orders') = Len(orders)
                /\ Len(orders'[o].items) = Len(orders[o].items)
                /\ \A i \in 1..Len(orders[o].items) :
                        Snapshot(orders'[o].items[i]) = Snapshot(orders[o].items[i])
                /\ \A other \in 1..Len(orders) :
                        other # o => orders'[other].items = orders[other].items]_vars

\* an item of one order has been served while another order has items
C13_Witness ==
    /\ Len(orders) = 2
    /\ orders[1].items[1].status = "Completed"
    /\ orders[1].items[1].price = 2500
    /\ orders[1].items[2].status = "Pending"
    /\ orders[1].items[2].name = "Naan"
    /\ orders[2].items[1].status = "Pending"

(***************************************************************************)
(* C14: right after POST /orders, the stored (and returned) status of the  *)
(* new order is the status derived from the items it was created with.     *)
(***************************************************************************)
C14_CreatedStatusIsDerived ==
    [][\A b \in Businesses, c \in CartSet, t \in TotalSet :
            CreateOrder(b, c, t) =>
                orders'[Len(orders')].status =
                    deriveStatus(orders'[Len(orders')].items)]_vars

(***************************************************************************)
(* C15: an order with no items has status Pending.                         *)
(***************************************************************************)
C15_EmptyOrderIsPending ==
    \A o \in 1..Len(orders) :
        Len(orders[o].items) = 0 => orders[o].status = "Pending"

(***************************************************************************)
(* C19: a store-link request sets the bill's expiresAt to 24 hours after   *)
(* the request, writes the modified pair of link columns or the plain pair *)
(* as isModified says and leaves the other pair, and leaves the rates and  *)
(* the totalAmount of a bill that existed.                                 *)
(***************************************************************************)
PlainPair(bill) == <<bill.billStoreLink, bill.billStorePublicId>>
ModifiedPair(bill) == <<bill.modifiedBillStoreLink, bill.modifiedBillStorePublicId>>

C19_StoreLinkFrame ==
    [][\A o \in OrderIds, b \in Businesses, l \in LinkIds, m \in BOOLEAN :
            StoreLink(o, b, l, l, m) =>
                LET old == IF HasBill(o) THEN BillOf(o) ELSE NewBill(o, b)
                    new == bills'[CHOOSE id \in DOMAIN bills' :
                                        bills'[id].orderId = o]
                IN /\ new.expiresAt = now + 1
                   /\ m => /\ ModifiedPair(new) = <<l, l>>
                            /\ PlainPair(new) = PlainPair(old)
                   /\ ~m => /\ PlainPair(new) = <<l, l>>
                             /\ ModifiedPair(new) = ModifiedPair(old)
                   /\ HasBill(o) => /\ RatesOf(new) = RatesOf(old)
                                     /\ new.totalAmount = old.totalAmount
                                     /\ DOMAIN bills' = DOMAIN bills]_vars

\* a charged bill carries a plain link stored at one time and a modified
\* link stored a day later
C19_Witness ==
    /\ HasBill(1)
    /\ BillOf(1).vatLow = 5
    /\ BillOf(1).totalAmount = 2600
    /\ PlainPair(BillOf(1)) = <<1, 1>>
    /\ ModifiedPair(BillOf(1)) = <<2, 2>>
    /\ now = 1
    /\ BillOf(1).expiresAt = 2

(***************************************************************************)
(* C16: after a POST /orders answered 201, every inventory row of the      *)
(* request's business is lower by the sum, over the cart's items and the   *)
(* ingredients of that name in the item's product, of ingredient quantity  *)
(* times item quantity; rows of other names or other businesses are as     *)
(* they were; a row may go below zero.                                     *)
(***************************************************************************)
RECURSIVE SumSeq(_)
SumSeq(q) == IF q = <<>> THEN 0 ELSE Head(q) + SumSeq(Tail(q))

\* what the cart's recipes need of the ingredient called name
Required(name, cart_items) ==
    SumSeq([i \in 1..Len(cart_items) |->
        LET recipe == IF cart_items[i].productId \in DOMAIN Products
                      THEN Products[cart_items[i].productId].ingredients
                      ELSE <<>>
        IN SumSeq([j \in 1..Len(recipe) |->
                IF recipe[j].name = name /\ recipe[j].quantity >= 0
                THEN recipe[j].quantity * cart_items[i].quantity ELSE 0])])

C16_InventoryDecrement ==
    (placed # <<>> /\ placed[1].status = 201) =>
        LET p == placed[1]
        IN /\ DOMAIN inventory = DOMAIN p.before
           /\ \A id \in DOMAIN inventory :
                /\ inventory[id].name = p.before[id].name
                /\ inventory[id].businessId = p.before[id].businessId
                /\ inventory[id].quantity =
                        IF inventory[id].businessId = p.businessId
                        THEN p.before[id].quantity
                                - Required(inventory[id].name, p.cart_items)
                        ELSE p.before[id].quantity

\* two teas and a naan placed for business 1: 5 milk and 3 flour taken,
\* the flour below zero, the other business's milk untouched
C16_Witness ==
    /\ placed # <<>>
    /\ placed[1].status = 201
    /\ placed[1].businessId = 1
    /\ Len(placed[1].cart_items) = 2
    /\ placed[1].cart_items[1].quantity = 2
    /\ placed[1].before = Stock
    /\ inventory[1].quantity = 5
    /\ inventory[2].quantity = 10
    /\ inventory[3].quantity = -2
    /\ inventory[4].quantity = 10

(***************************************************************************)
(* C17: inventory bookkeeping never blocks order placement: an ingredient  *)
(* whose quantity is not a number changes no inventory row, and once the   *)
(* order row is persisted the request is not answered with an error.       *)
(***************************************************************************)
C17_InventoryNeverBlocksOrder ==
    placed # <<>> =>
        LET p == placed[1]
        IN /\ \A id \in DOMAIN inventory :
                (\A i \in 1..Len(p.cart_items) :
                    \A j \in 1..Len(IngredientsOf(p.cart_items[i].productId)) :
                        LET ing == IngredientsOf(p.cart_items[i].productId)[j]
                        IN ing.name = inventory[id].name =>
                                ing.quantity = NonNumeric)
                    => inventory[id] = p.before[id]
           /\ p.orderId \in 1..Len(orders) => p.status = 201

(***************************************************************************)
(* C11: while item-status PATCH requests are served, the stored order      *)
(* status differs from the status of the stored items for at most one      *)
(* datastore write in a row, and never once every handler that wrote an    *)
(* item status has returned.                                               *)
(***************************************************************************)
C11_ItemAndOrderStatusConsistent ==
    /\ staleFor <= 1
    /\ (\A h \in Handlers : reqs[h].pc \in {"idle", "done"}) => ~Stale(orders)

(***************************************************************************)
(* C12: no reader sees a multi-step mutation partly applied: an order      *)
(* whose requests all carry items is never stored without items, no        *)
(* handler is part-way through its writes with some of them visible, and a *)
(* handler whose datastore call threw has left none of its writes.         *)
(***************************************************************************)
C12_NoPartialUpdateObserved ==
    /\ \A o \in 1..Len(orders) : Len(orders[o].items) > 0
    /\ \A h \in Handlers :
            /\ (reqs[h].pc \notin {"idle", "done"}) => ~reqs[h].wrote
            /\ reqs[h].threw => ~reqs[h].wrote

(***************************************************************************)
(* C18: when a datastore call throws, the endpoint answers 500 with a      *)
(* generic message that does not carry the error's detail.                 *)
(***************************************************************************)
C18_DatastoreErrorIsGeneric500 ==
    \A h \in Handlers :
        reqs[h].threw => (reqs[h].code = 500 /\ ~reqs[h].detail)

(***************************************************************************)
(* C20: an order never has more than one bill, however the handlers that   *)
(* create bills interleave; and a handler whose bill creation is rejected  *)
(* because the order has a bill leaves the bills and the orders as they    *)
(* were.                                                                   *)
(***************************************************************************)
C20_OneBillPerOrder ==
    [][/\ \A o \in 1..Len(orders') :
            Cardinality({id \in DOMAIN bills' : bills'[id].orderId = o}) <= 1
       /\ \A h \in Handlers :
            (/\ \/ reqs[h].op = "postBill" /\ reqs[h].pc = "tx"
                \/ /\ reqs[h].op = "storeLink"
                   /\ reqs[h].pc = "write"
                   /\ ~reqs[h].sawBill
             /\ HasBill(reqs[h].orderId)
             /\ reqs'[h].pc = "done")
                => /\ reqs'[h].threw
                   /\ bills' = bills
                   /\ orders' = orders]_vars

\* store-link and POST /bill both set out while the order had no bill;
\* store-link created the bill and POST /bill was rejected
C20_Witness ==
    /\ Cardinality(DOMAIN bills) = 1
    /\ BillOf(1).billStoreLink = 1
    /\ BillOf(1).expiresAt = 1
    /\ orders[1].status = "Pending"
    /\ \E h \in Handlers :
            /\ reqs[h].op = "storeLink"
            /\ reqs[h].code = 201
    /\ \E h \in Handlers :
            /\ reqs[h].op = "postBill"
            /\ reqs[h].threw
            /\ reqs[h].code = 400

(***************************************************************************)
(* C21: under the schedule's fairness, a bill whose expiresAt has passed   *)
(* is eventually either deleted or given a later expiresAt, even when the  *)
(* deletion of another expired bill is rejected in every firing.           *)
(***************************************************************************)
Overdue(id) ==
    /\ id \in DOMAIN bills
    /\ bills[id].expiresAt # Null
    /\ bills[id].expiresAt <= now

C21_ExpiredBillEventuallyDeleted == Overdue(SweptBill) ~> ~Overdue(SweptBill)

(***************************************************************************)
(* C22: whenever no item-status PATCH is under way, whatever the order in  *)
(* which the calls of the requests so far were served, every order's       *)
(* stored status is the status derived from its stored items.              *)
(***************************************************************************)
C22_PatchesSettleOnDerivedStatus ==
    (\A h \in Handlers : reqs[h].op = "patchItem" => reqs[h].pc = "done") =>
        \A o \in 1..Len(orders) :
            orders[o].status = deriveStatus(orders[o].items)

(***************************************************************************)
(* C23: when the reaper deletes a bill row, each image identifier stored   *)
(* on that row, billStorePublicId and modifiedBillStorePublicId alike, has *)
(* already been the subject of a delete request to the image store by a    *)
(* firing under way.                                                       *)
(***************************************************************************)
StoredPublicIds(bill) ==
    {bill.billStorePublicId, bill.modifiedBillStorePublicId} \ {Null}

DeleteRequested(publicId) ==
    \E r \in Runs : \E k \in 1..Len(runs[r].log) :
        runs[r].log[k].kind = "image" /\ runs[r].log[k].publicId = publicId

C23_ImagesRequestedBeforeRowRemoved ==
    [][\A id \in DOMAIN bills :
            id \notin DOMAIN bills' =>
                \A publicId \in StoredPublicIds(bills[id]) :
                    DeleteRequested(publicId)]_vars

(***************************************************************************)
(* C24: a table is linked to at most one order: no two stored orders carry *)
(* the same tableId, and a POST /orders that finds its table booked        *)
(* answers 400 and stores no order.                                        *)
(***************************************************************************)
OrdersAt(tableId) == {o \in 1..Len(orders) : <<o, tableId>> \in seated}

C24_TableLinkedToOneOrder ==
    /\ \A tableId \in DOMAIN tables : Cardinality(OrdersAt(tableId)) <= 1
    /\ \A h \in Handlers :
            (reqs[h].op = "postOrder" /\ reqs[h].code = 400) => ~reqs[h].wrote

(***************************************************************************)
(* C25: no customer's points balance is ever negative.                     *)
(***************************************************************************)
C25_PointsNeverNegative ==
    \A c \in DOMAIN customers : customers[c].points >= 0

(***************************************************************************)
(* C26: after orders have been placed and replaced through PUT, each       *)
(* inventory row is lower than the initial stock by what the recipes of    *)
(* the current items of its business's orders need, and by no more: what   *)
(* was taken for replaced items is not kept.                               *)
(***************************************************************************)
RequiredByOrders(name, businessId) ==
    SumSeq([o \in 1..Len(orders) |->
        IF orders[o].businessId = businessId
        THEN Required(name, orders[o].items) ELSE 0])

C26_InventoryFollowsCurrentItems ==
    \A id \in DOMAIN inventory :
        inventory[id].quantity =
            Stock[id].quantity
                - RequiredByOrders(inventory[id].name, inventory[id].businessId)

(***************************************************************************)
(* C27: the step in which the transaction of POST /bill, update-charges or *)
(* update-items commits leaves the order with a bill whose totalAmount is  *)
(* the order's totalAmount; the step in which that transaction throws      *)
(* leaves every bill and every order as it was.                            *)
(***************************************************************************)
TotalWriters == {"postBill", "updateCharges", "updateItems"}

C27_TotalsWrittenTogether ==
    [][\A h \in Handlers :
        (/\ reqs[h].op \in TotalWriters
         /\ reqs[h].pc = "tx"
         /\ reqs'[h].pc = "done") =>
            IF reqs'[h].threw
            THEN bills' = bills /\ orders' = orders
            ELSE /\ \E id \in DOMAIN bills' :
                        bills'[id].orderId = reqs[h].orderId
                 /\ \A id \in DOMAIN bills' :
                        bills'[id].orderId = reqs[h].orderId =>
                            bills'[id].totalAmount =
                                orders'[reqs[h].orderId].totalAmount]_vars

\* update-charges with a 10% service charge on one tea of 0.25 has answered
\* 200: bill and order both hold 0.28 (0.25 + 0.025 rounded to 0.03), the
\* order no longer the 0.50 it was placed with
C27_Witness ==
    /\ \E h \in Handlers :
            /\ reqs[h].op = "updateCharges"
            /\ reqs[h].pc = "done"
            /\ reqs[h].code = 200
    /\ HasBill(1)
    /\ BillOf(1).serviceCharge = 10
    /\ BillOf(1).totalAmount = 2800
    /\ orders[1].totalAmount = 2800

=============================================================================
